---------------------------- MODULE Spec2Model ----------------------------
(***************************************************************************)
(* A model of libadm's XML ingestion, src/src/private/xml_parser.cpp:      *)
(* XmlParser::parse() walks the children of the audioFormatExtended root   *)
(* once, hands each to the parse routine of its name, adds the parsed      *)
(* element to the target document and to the id map, records every         *)
(* reference child in the pending-reference queue of its role, and after   *)
(* the walk resolves the fourteen queues in a fixed order.                 *)
(*                                                                         *)
(* The markup is modelled as records.  A child of the root is a "node"     *)
(*   [name, nameAttr, td, id, typeLabel, typeDefinition, children]         *)
(* where nameAttr says whether the required name attribute is present,     *)
(* td/id are the type descriptor and the numeric body of the identifier    *)
(* attribute, and children is the ordered list of sub-elements             *)
(*   [name, td, text, coordinate, bound, screenEdgeLock, children].        *)
(* Optional scalar attributes (start, duration, importance, ...) do not    *)
(* influence identifiers, references or positions and are left out.        *)
(***************************************************************************)
EXTENDS Integers, Sequences, FiniteSets, TLC

(***************************************************************************)
(* Bounds of the model.                                                    *)
(***************************************************************************)
\* numeric bodies of identifiers: 1..NumIds
NumIds == 2
\* children of the audioFormatExtended root
MaxChildren == 3
\* reference children in one document
MaxRefs == 2
\* position / positionOffset children in one document
MaxPos == 2
\* texts of position / positionOffset children: 1..NumVals
NumVals == 2

(***************************************************************************)
(* Names.                                                                  *)
(***************************************************************************)
NoAttr == "absent"
NoErr == "none"

ElementNames ==
  << "audioProgramme", "audioContent", "audioObject", "audioTrackUID",
     "audioPackFormat", "audioChannelFormat", "audioStreamFormat",
     "audioTrackFormat" >>

ElementKinds == { ElementNames[i] : i \in 1..Len(ElementNames) }

\* kinds whose parse routine reads a required name attribute before the id
NamedKinds == ElementKinds \ {"audioTrackUID"}

\* kinds whose identifier embeds a type descriptor
TypedKinds == {"audioPackFormat", "audioChannelFormat"}

TypeDescriptors == {"DirectSpeakers", "Matrix", "Objects", "HOA", "Binaural"}

CartesianAxes == {"X", "Y", "Z"}
SphericalAxes == {"azimuth", "elevation", "distance"}
BoundValues == {"min", "max"}

\* an identifier: element kind, embedded type descriptor (typed kinds), value
MakeId(kind, td, value) ==
  [kind |-> kind, td |-> IF kind \in TypedKinds THEN td ELSE NoAttr, value |-> value]

\* an optional value: <<>> when unset, <<v>> when set
Unset == <<>>
Some(v) == <<v>>
IsSet(o) == Len(o) > 0

(***************************************************************************)
(* The reference roles.  A role is named after the member of XmlParser     *)
(* that holds its pending references.                                      *)
(***************************************************************************)
Role(src, ref, tgt) == [src |-> src, ref |-> ref, tgt |-> tgt]

Roles ==
  [ programmeContentRefs_         |-> Role("audioProgramme", "audioContentIDRef", "audioContent"),
    contentObjectRefs_            |-> Role("audioContent", "audioObjectIDRef", "audioObject"),
    objectObjectRefs_             |-> Role("audioObject", "audioObjectIDRef", "audioObject"),
    objectPackFormatRefs_         |-> Role("audioObject", "audioPackFormatIDRef", "audioPackFormat"),
    objectTrackUidRefs_           |-> Role("audioObject", "audioTrackUIDRef", "audioTrackUID"),
    trackUidTrackFormatRef_       |-> Role("audioTrackUID", "audioTrackFormatIDRef", "audioTrackFormat"),
    trackUidChannelFormatRef_     |-> Role("audioTrackUID", "audioChannelFormatIDRef", "audioChannelFormat"),
    trackUidPackFormatRef_        |-> Role("audioTrackUID", "audioPackFormatIDRef", "audioPackFormat"),
    packFormatChannelFormatRefs_  |-> Role("audioPackFormat", "audioChannelFormatIDRef", "audioChannelFormat"),
    packFormatPackFormatRefs_     |-> Role("audioPackFormat", "audioPackFormatIDRef", "audioPackFormat"),
    trackFormatStreamFormatRef_   |-> Role("audioTrackFormat", "audioStreamFormatIDRef", "audioStreamFormat"),
    streamFormatChannelFormatRef_ |-> Role("audioStreamFormat", "audioChannelFormatIDRef", "audioChannelFormat"),
    streamFormatPackFormatRef_    |-> Role("audioStreamFormat", "audioPackFormatIDRef", "audioPackFormat"),
    streamFormatTrackFormatRefs_  |-> Role("audioStreamFormat", "audioTrackFormatIDRef", "audioTrackFormat") ]

RoleNames == DOMAIN Roles

RolesOf(kind) == { r \in RoleNames : Roles[r].src = kind }

\* a call of resolveReferences / resolveReference on a queue
ResolveReferences(queue) == [call |-> "resolveReferences", queue |-> queue]
ResolveReference(queue) == [call |-> "resolveReference", queue |-> queue]

\* the calls with those for the references of the Objects made first
ResolveOrderObjectsFirst ==
  << ResolveReferences("objectObjectRefs_"),
     ResolveReferences("objectPackFormatRefs_"),
     ResolveReferences("objectTrackUidRefs_"),
     ResolveReferences("programmeContentRefs_"),
     ResolveReferences("contentObjectRefs_"),
     ResolveReference("trackUidTrackFormatRef_"),
     ResolveReference("trackUidChannelFormatRef_"),
     ResolveReference("trackUidPackFormatRef_"),
     ResolveReferences("packFormatChannelFormatRefs_"),
     ResolveReferences("packFormatPackFormatRefs_"),
     ResolveReference("trackFormatStreamFormatRef_"),
     ResolveReference("streamFormatChannelFormatRef_"),
     ResolveReference("streamFormatPackFormatRef_"),
     ResolveReferences("streamFormatTrackFormatRefs_") >>

\* the calls that end parse(), in their order
ResolveOrder ==
  << ResolveReferences("programmeContentRefs_"),
     ResolveReferences("contentObjectRefs_"),
     ResolveReferences("objectObjectRefs_"),
     ResolveReferences("objectPackFormatRefs_"),
     ResolveReferences("objectTrackUidRefs_"),
     ResolveReference("trackUidTrackFormatRef_"),
     ResolveReference("trackUidChannelFormatRef_"),
     ResolveReference("trackUidPackFormatRef_"),
     ResolveReferences("packFormatChannelFormatRefs_"),
     ResolveReferences("packFormatPackFormatRefs_"),
     ResolveReference("trackFormatStreamFormatRef_"),
     ResolveReference("streamFormatChannelFormatRef_"),
     ResolveReference("streamFormatPackFormatRef_"),
     ResolveReferences("streamFormatTrackFormatRefs_") >>

EmptyQueues == [r \in RoleNames |-> <<>>]

(***************************************************************************)
(* Markup constructors.                                                    *)
(***************************************************************************)
Child(name, td, text, coordinate, bound, children) ==
  [name |-> name, td |-> td, text |-> text, coordinate |-> coordinate,
   bound |-> bound, screenEdgeLock |-> NoAttr, children |-> children,
   value |-> "", gainUnit |-> NoAttr, typeDefinition |-> NoAttr,
   nonDialogueContentKind |-> NoAttr, dialogueContentKind |-> NoAttr,
   mixedContentKind |-> NoAttr, onOffInteract |-> NoAttr]

\* <nameIDRef>id</nameIDRef>
RefChild(name, td, value) == Child(name, td, value, NoAttr, NoAttr, <<>>)

\* <position coordinate=.. bound=..>text</position>, <positionOffset ..>
PosChild(name, coordinate, bound, text) == Child(name, NoAttr, text, coordinate, bound, <<>>)

\* <gain gainUnit=..>value</gain>, the text as written
GainChild(gainUnit, value) ==
  [Child("gain", NoAttr, 1, NoAttr, NoAttr, <<>>) EXCEPT
     !.gainUnit = gainUnit, !.value = value]

\* <dialogue nonDialogueContentKind=.. dialogueContentKind=..
\* mixedContentKind=..>value</dialogue>, the text as written
DialogueChild(value, nonDialogue, dialogue, mixed) ==
  [Child("dialogue", NoAttr, 1, NoAttr, NoAttr, <<>>) EXCEPT
     !.value = value, !.nonDialogueContentKind = nonDialogue,
     !.dialogueContentKind = dialogue, !.mixedContentKind = mixed]

\* <frequency typeDefinition=..>text</frequency>
FrequencyChild(typeDefinition, text) ==
  [Child("frequency", NoAttr, text, NoAttr, NoAttr, <<>>) EXCEPT
     !.typeDefinition = typeDefinition]

Node(name, nameAttr, td, id, children) ==
  [name |-> name, nameAttr |-> nameAttr, td |-> td, id |-> id,
   typeLabel |-> NoAttr, typeDefinition |-> NoAttr, children |-> children,
   importance |-> NoAttr, absoluteDistance |-> NoAttr, normalization |-> NoAttr,
   screenRef |-> NoAttr, nfcRefDist |-> NoAttr]

NodeId(node) == MakeId(node.name, node.td, node.id)

\* the identifier a reference child of role r names
RefId(r, child) == MakeId(Roles[r].tgt, child.td, child.text)

(***************************************************************************)
(* Elements and the helper layer (xml_parser_helper.hpp, document.hpp,     *)
(* the element classes): their code is not part of the sources at hand,    *)
(* they are modelled from the specification.                               *)
(***************************************************************************)
\* an element as created by <Kind>::create: no relation, no position offset,
\* no optional attribute
CreateElement(id) ==
  [id |-> id,
   class |-> id.kind,
   importance |-> Unset,
   absoluteDistance |-> Unset,
   normalization |-> Unset,
   screenRef |-> Unset,
   nfcRefDist |-> Unset,
   interaction |-> Unset,
   rel |-> [r \in RolesOf(id.kind) |-> <<>>],
   sphericalPositionOffset |-> Unset,
   cartesianPositionOffset |-> Unset,
   blocks |-> <<>>,
   gain |-> Unset,
   dialogue |-> Unset,
   frequency |-> [lowPass |-> Unset, highPass |-> Unset]]

\* detail::findElements: the children of that name, in document order
findElements(node, name) == SelectSeq(node.children, LAMBDA c : c.name = name)

\* IdMap::contains
contains(map, id) == id \in map

\* the outcome of a routine that may throw
Throw(e) == [err |-> e]
Threw(r) == r.err # NoErr

\* parseAttribute of the required name attribute
parseNameAttribute(node) ==
  IF node.name \in NamedKinds /\ ~node.nameAttr
  THEN Throw("MissingAttributeError")
  ELSE Throw(NoErr)

RECURSIVE enqueueAll(_, _, _, _)
enqueueAll(queue, r, src, cs) ==
  IF cs = <<>> THEN queue
  ELSE enqueueAll(Append(queue, [src |-> src, target |-> RefId(r, Head(cs))]),
                  r, src, Tail(cs))

\* addOptionalReferences / setOptionalReference: every child of the role's
\* name is recorded, in document order, as a pending (source, target id) pair
addOptionalReferences(node, src, queues, r) ==
  [queues EXCEPT ![r] = enqueueAll(@, r, src, findElements(node, Roles[r].ref))]

setOptionalReference(node, src, queues, r) ==
  [queues EXCEPT ![r] = enqueueAll(@, r, src, findElements(node, Roles[r].ref))]

(***************************************************************************)
(* Position offsets of an audioObject.                                     *)
(***************************************************************************)
\* parseAttribute<SphericalCoordinateValue / CartesianCoordinateValue>(element,
\* "coordinate"): a required attribute of a validated enumeration type
parseCoordinateAttribute(element, axes) ==
  IF element.coordinate = NoAttr THEN Throw("MissingAttributeError")
  ELSE IF element.coordinate \notin axes THEN Throw("InvalidCoordinateError")
  ELSE [err |-> NoErr, value |-> element.coordinate]

\* setOptionalMultiElement(node, name, .., parser): nothing without children
\* of that name, else the parser's outcome on all of them, here parsed
setOptionalMultiElement(node, name, parsed) ==
  IF findElements(node, name) = <<>> THEN [err |-> NoErr, value |-> Unset]
  ELSE IF Threw(parsed) THEN parsed
  ELSE [err |-> NoErr, value |-> Some(parsed.value)]

\* setOptionalElement(node, name, .., parser): nothing without a child of
\* that name, else the parser's outcome on it, here parsed
setOptionalElement(node, name, parsed) ==
  IF findElements(node, name) = <<>> THEN [err |-> NoErr, value |-> Unset]
  ELSE IF Threw(parsed) THEN parsed
  ELSE [err |-> NoErr, value |-> Some(parsed.value)]

\* setMultiElement(node, name, .., parser): the parser's outcome on all
\* children of that name, here parsed
setMultiElement(node, name, parsed) == parsed

(***************************************************************************)
(* Numbers read from text, and the gain.                                   *)
(***************************************************************************)
\* std::stoi on the texts tried: the number the text begins with, or
\* std::invalid_argument when it begins with none
stoi(str) ==
  IF str = "0" THEN [err |-> NoErr, value |-> 0]
  ELSE IF str \in {"1", "1x"} THEN [err |-> NoErr, value |-> 1]
  ELSE IF str = "2" THEN [err |-> NoErr, value |-> 2]
  ELSE IF str = "3" THEN [err |-> NoErr, value |-> 3]
  ELSE Throw("std::invalid_argument")

\* std::stod on the texts tried, none of which has a fraction
stod(str) == stoi(str)

\* Gain::fromLinear, Gain::fromDb
fromLinear(value) == [unit |-> "linear", value |-> value]
fromDb(value) == [unit |-> "dB", value |-> value]

\* parseGain taking every unit it does not know for linear
parseGainAnyUnit(node) ==
  LET value == stod(node.value)
  IN  IF Threw(value) THEN value
      ELSE IF node.gainUnit = "dB" THEN [err |-> NoErr, value |-> fromDb(value.value)]
      ELSE [err |-> NoErr, value |-> fromLinear(value.value)]

parseGain(node) ==
  LET unitAttr == node.gainUnit
      value == stod(node.value)
  IN  IF Threw(value) THEN value
      ELSE IF unitAttr # NoAttr
      THEN IF unitAttr = "linear" THEN [err |-> NoErr, value |-> fromLinear(value.value)]
           ELSE IF unitAttr = "dB" THEN [err |-> NoErr, value |-> fromDb(value.value)]
           ELSE Throw("XmlParsingUnexpectedAttrError")
      ELSE [err |-> NoErr, value |-> fromLinear(value.value)]

\* setOptionalElement<Gain>(node, "gain", .., &parseGain)
setGain(node) ==
  setOptionalElement(node, "gain", parseGain(Head(findElements(node, "gain"))))

(***************************************************************************)
(* The content kind.                                                       *)
(***************************************************************************)
\* parseAttribute<T>(node, name): the value of a required attribute
parseAttribute(node, name) ==
  IF node[name] = NoAttr THEN Throw("MissingAttributeError")
  ELSE [err |-> NoErr, value |-> node[name]]

\* ContentKind(value) from a value of one of the three kinds of content kind
ContentKind(kind, parsed) ==
  IF Threw(parsed) THEN parsed
  ELSE [err |-> NoErr, value |-> [kind |-> kind, value |-> parsed.value]]

\* DialogueId(std::stoi(node->value()))
parseDialogueId(node) == stoi(node.value)

\* parseContentKind reading the first companion attribute there is
parseContentKindAnyCompanion(node) ==
  LET dialogueId == parseDialogueId(node)
  IN  IF Threw(dialogueId) THEN dialogueId
      ELSE IF dialogueId.value \notin {0, 1, 2} THEN Throw("XmlParsingError(unknown dialogue id)")
      ELSE IF node.nonDialogueContentKind # NoAttr
      THEN ContentKind("NonDialogueContentKind", parseAttribute(node, "nonDialogueContentKind"))
      ELSE IF node.dialogueContentKind # NoAttr
      THEN ContentKind("DialogueContentKind", parseAttribute(node, "dialogueContentKind"))
      ELSE ContentKind("MixedContentKind", parseAttribute(node, "mixedContentKind"))

\* Dialogue::NON_DIALOGUE is 0, Dialogue::DIALOGUE 1, Dialogue::MIXED 2
parseContentKind(node) ==
  LET dialogueId == parseDialogueId(node)
  IN  IF Threw(dialogueId) THEN dialogueId
      ELSE IF dialogueId.value = 0
      THEN ContentKind("NonDialogueContentKind", parseAttribute(node, "nonDialogueContentKind"))
      ELSE IF dialogueId.value = 1
      THEN ContentKind("DialogueContentKind", parseAttribute(node, "dialogueContentKind"))
      ELSE IF dialogueId.value = 2
      THEN ContentKind("MixedContentKind", parseAttribute(node, "mixedContentKind"))
      ELSE Throw("XmlParsingError(unknown dialogue id)")

(***************************************************************************)
(* The frequency.                                                          *)
(***************************************************************************)
\* the body of the loop of parseFrequency telling the markers by their
\* letters only
parseFrequencyElementAnyCase(element, frequency) ==
  LET type == parseAttribute(element, "typeDefinition")
  IN  IF Threw(type) THEN type
      ELSE IF type.value \in {"lowPass", "lowpass"}
      THEN [err |-> NoErr, value |-> [frequency EXCEPT !.lowPass = Some(element.text)]]
      ELSE IF type.value \in {"highpass", "highPass"}
      THEN [err |-> NoErr, value |-> [frequency EXCEPT !.highPass = Some(element.text)]]
      ELSE [err |-> NoErr, value |-> frequency]

\* the body of the loop of parseFrequency with the two fields exchanged
parseFrequencyElementExchanged(element, frequency) ==
  LET type == parseAttribute(element, "typeDefinition")
  IN  IF Threw(type) THEN type
      ELSE IF type.value = "lowPass"
      THEN [err |-> NoErr, value |-> [frequency EXCEPT !.highPass = Some(element.text)]]
      ELSE IF type.value = "highpass"
      THEN [err |-> NoErr, value |-> [frequency EXCEPT !.lowPass = Some(element.text)]]
      ELSE [err |-> NoErr, value |-> frequency]

\* the body of the loop of parseFrequency: setValue<LowPass>,
\* setValue<HighPass> or nothing
parseFrequencyElement(element, frequency) ==
  LET type == parseAttribute(element, "typeDefinition")
  IN  IF Threw(type) THEN type
      ELSE IF type.value = "lowPass"
      THEN [err |-> NoErr, value |-> [frequency EXCEPT !.lowPass = Some(element.text)]]
      ELSE IF type.value = "highpass"
      THEN [err |-> NoErr, value |-> [frequency EXCEPT !.highPass = Some(element.text)]]
      ELSE [err |-> NoErr, value |-> frequency]

RECURSIVE parseFrequencyLoop(_, _)
parseFrequencyLoop(elements, frequency) ==
  IF elements = <<>> THEN [err |-> NoErr, value |-> frequency]
  ELSE LET next == parseFrequencyElement(Head(elements), frequency)
       IN  IF Threw(next) THEN next
           ELSE parseFrequencyLoop(Tail(elements), next.value)

parseFrequency(elements) ==
  parseFrequencyLoop(elements, [lowPass |-> Unset, highPass |-> Unset])

\* guessCartesianFlag that never answers cartesian
guessNeverCartesian(node, elementName) == FALSE

guessCartesianFlag(node, elementName) ==
  LET elements == findElements(node, elementName)
  IN  IF elements # <<>>
      THEN IF elements[1].coordinate # NoAttr
           THEN IF elements[1].coordinate = "X" \/ elements[1].coordinate = "Y"
                   \/ elements[1].coordinate = "Z"
                THEN TRUE
                ELSE FALSE
           ELSE FALSE
      ELSE FALSE

RECURSIVE sphericalPositionOffsetLoop(_, _)
sphericalPositionOffsetLoop(position, nodes) ==
  IF nodes = <<>> THEN [err |-> NoErr, value |-> position]
  ELSE LET element == Head(nodes)
           coordinate == parseCoordinateAttribute(element, SphericalAxes)
       IN  IF Threw(coordinate) THEN coordinate
           ELSE sphericalPositionOffsetLoop(
                  IF coordinate.value = "azimuth"
                  THEN [position EXCEPT !.azimuth = Some(element.text)]
                  ELSE IF coordinate.value = "elevation"
                  THEN [position EXCEPT !.elevation = Some(element.text)]
                  ELSE IF coordinate.value = "distance"
                  THEN [position EXCEPT !.distance = Some(element.text)]
                  ELSE position,
                  Tail(nodes))

parseSphericalPositionOffset(nodes) ==
  sphericalPositionOffsetLoop(
    [azimuth |-> Unset, elevation |-> Unset, distance |-> Unset], nodes)

RECURSIVE cartesianPositionOffsetLoop(_, _)
cartesianPositionOffsetLoop(position, nodes) ==
  IF nodes = <<>> THEN [err |-> NoErr, value |-> position]
  ELSE LET element == Head(nodes)
           coordinate == parseCoordinateAttribute(element, CartesianAxes)
       IN  IF Threw(coordinate) THEN coordinate
           ELSE cartesianPositionOffsetLoop(
                  IF coordinate.value = "X"
                  THEN [position EXCEPT !.X = Some(element.text)]
                  ELSE IF coordinate.value = "Y"
                  THEN [position EXCEPT !.Y = Some(element.text)]
                  ELSE IF coordinate.value = "Z"
                  THEN [position EXCEPT !.Z = Some(element.text)]
                  ELSE position,
                  Tail(nodes))

\* parseCartesianPositionOffset writing every child into X
parseCartesianPositionOffsetIntoX(nodes) ==
  IF \E k \in 1..Len(nodes) : Threw(parseCoordinateAttribute(nodes[k], CartesianAxes))
  THEN Throw("InvalidCoordinateError")
  ELSE [err |-> NoErr,
        value |-> [X |-> Some(nodes[Len(nodes)].text), Y |-> Unset, Z |-> Unset]]

parseCartesianPositionOffset(nodes) ==
  cartesianPositionOffsetLoop([X |-> Unset, Y |-> Unset, Z |-> Unset], nodes)

(***************************************************************************)
(* Speaker positions of a DirectSpeakers block.                            *)
(***************************************************************************)
\* parseOptionalAttribute<BoundValue>(element, "bound"): absent, or a value of
\* the validated enumeration {min, max}
parseOptionalBound(element) ==
  IF element.bound = NoAttr \/ element.bound \in BoundValues
  THEN [err |-> NoErr, value |-> element.bound]
  ELSE Throw("InvalidStringError")

NoScreenEdgeLock == [horizontalEdge |-> Unset, verticalEdge |-> Unset]

NoCoordinate == [value |-> Unset, min |-> Unset, max |-> Unset]

EmptyPosition(shape, axes) ==
  [shape |-> shape, coord |-> [a \in axes |-> NoCoordinate],
   screenEdgeLock |-> NoScreenEdgeLock]

\* the branch "bound == none / min / max" taken for one axis: setValue of the
\* base value, the minimum or the maximum of that axis
setAxis(position, axe, bound, text) ==
  IF bound = NoAttr THEN [position EXCEPT !.coord[axe].value = Some(text)]
  ELSE IF bound = "min" THEN [position EXCEPT !.coord[axe].min = Some(text)]
  ELSE IF bound = "max" THEN [position EXCEPT !.coord[axe].max = Some(text)]
  ELSE position

\* the screenEdgeLock attribute never read
setEdgeIgnored(screenEdgeLock, edge, element) == screenEdgeLock

\* setOptionalAttribute<HorizontalEdge / VerticalEdge>(element, "screenEdgeLock", ..)
setEdge(screenEdgeLock, edge, element) ==
  IF element.screenEdgeLock = NoAttr THEN screenEdgeLock
  ELSE [screenEdgeLock EXCEPT ![edge] = Some(element.screenEdgeLock)]

RECURSIVE cartesianSpeakerPositionLoop(_, _, _)
cartesianSpeakerPositionLoop(speakerPosition, screenEdgeLock, coordinates) ==
  IF coordinates = <<>>
  THEN [err |-> NoErr,
        value |-> [speakerPosition EXCEPT !.screenEdgeLock = screenEdgeLock]]
  ELSE LET element == Head(coordinates).element
           axe == Head(coordinates).axis
           bound == parseOptionalBound(element)
       IN  IF Threw(bound) THEN Throw("XmlParsingError(InvalidStringError)")
           ELSE cartesianSpeakerPositionLoop(
                  IF axe = "X" \/ axe = "Y" \/ axe = "Z"
                  THEN setAxis(speakerPosition, axe, bound.value, element.text)
                  ELSE speakerPosition,
                  IF axe = "X" /\ bound.value = NoAttr
                  THEN setEdge(screenEdgeLock, "horizontalEdge", element)
                  ELSE IF axe = "Y" /\ bound.value = NoAttr
                  THEN setEdge(screenEdgeLock, "verticalEdge", element)
                  ELSE screenEdgeLock,
                  Tail(coordinates))

parseCartesianSpeakerPosition(cartesianCoordinates) ==
  cartesianSpeakerPositionLoop(EmptyPosition("cartesian", CartesianAxes),
                               NoScreenEdgeLock, cartesianCoordinates)

RECURSIVE sphericalSpeakerPositionLoop(_, _, _)
sphericalSpeakerPositionLoop(speakerPosition, screenEdgeLock, coordinates) ==
  IF coordinates = <<>>
  THEN [err |-> NoErr,
        value |-> [speakerPosition EXCEPT !.screenEdgeLock = screenEdgeLock]]
  ELSE LET element == Head(coordinates).element
           axe == Head(coordinates).axis
           bound == parseOptionalBound(element)
       IN  IF Threw(bound) THEN bound
           ELSE sphericalSpeakerPositionLoop(
                  IF axe = "azimuth" \/ axe = "elevation" \/ axe = "distance"
                  THEN setAxis(speakerPosition, axe, bound.value, element.text)
                  ELSE speakerPosition,
                  IF axe = "azimuth" /\ bound.value = NoAttr
                  THEN setEdge(screenEdgeLock, "horizontalEdge", element)
                  ELSE IF axe = "elevation" /\ bound.value = NoAttr
                  THEN setEdge(screenEdgeLock, "verticalEdge", element)
                  ELSE screenEdgeLock,
                  Tail(coordinates))

parseSphericalSpeakerPosition(sphericalCoordinates) ==
  sphericalSpeakerPositionLoop(EmptyPosition("spherical", SphericalAxes),
                               NoScreenEdgeLock, sphericalCoordinates)

\* the first loop of parseSpeakerPosition: sorts the children into the
\* cartesian and the spherical list, or throws at the first child whose
\* coordinate attribute is missing or names no axis
RECURSIVE classifyCoordinates(_, _, _)
classifyCoordinates(nodes, cartesianCoordinates, sphericalCoordinates) ==
  IF nodes = <<>>
  THEN [err |-> NoErr, cartesian |-> cartesianCoordinates,
        spherical |-> sphericalCoordinates]
  ELSE LET element == Head(nodes)
           axis == element.coordinate
       IN  IF axis # NoAttr
           THEN IF axis = "X" \/ axis = "Y" \/ axis = "Z"
                THEN classifyCoordinates(Tail(nodes),
                       Append(cartesianCoordinates, [element |-> element, axis |-> axis]),
                       sphericalCoordinates)
                ELSE IF axis = "azimuth" \/ axis = "elevation" \/ axis = "distance"
                THEN classifyCoordinates(Tail(nodes), cartesianCoordinates,
                       Append(sphericalCoordinates, [element |-> element, axis |-> axis]))
                ELSE Throw("XmlParsingError(Speaker position has invalid coordinate attribute)")
           ELSE Throw("XmlParsingError(SpeakerPosition is missing coordinate attribute)")

\* parseSpeakerPosition without the check for both lists being filled
parseSpeakerPositionUnchecked(nodes) ==
  LET c == classifyCoordinates(nodes, <<>>, <<>>)
  IN  IF Threw(c) THEN c
      ELSE IF c.cartesian = <<>> /\ c.spherical = <<>>
      THEN Throw("XmlParsingError(SpeakerPosition has neither cartesian nor spherical coordinates)")
      ELSE IF c.cartesian # <<>>
      THEN parseCartesianSpeakerPosition(c.cartesian)
      ELSE parseSphericalSpeakerPosition(c.spherical)

parseSpeakerPosition(nodes) ==
  LET c == classifyCoordinates(nodes, <<>>, <<>>)
  IN  IF Threw(c) THEN c
      ELSE IF c.cartesian = <<>> /\ c.spherical = <<>>
      THEN Throw("XmlParsingError(SpeakerPosition has neither cartesian nor spherical coordinates)")
      ELSE IF c.cartesian # <<>> /\ c.spherical # <<>>
      THEN Throw("XmlParsingError(SpeakerPosition has both cartesian and spherical coordinates)")
      ELSE IF c.cartesian # <<>>
      THEN parseCartesianSpeakerPosition(c.cartesian)
      ELSE parseSphericalSpeakerPosition(c.spherical)

\* a block of a channel format: its variant, its Cartesian flag (Objects
\* blocks) and its position (DirectSpeakers and Objects blocks)
BlockFormat(kind, cartesian, position) ==
  [kind |-> kind, cartesian |-> cartesian, position |-> position, gain |-> Unset]

parseAudioBlockFormatDirectSpeakers(node) ==
  LET position == setMultiElement(node, "position",
                                 parseSpeakerPosition(findElements(node, "position")))
      gain == setGain(node)
  IN  IF Threw(position) THEN position
      ELSE IF Threw(gain) THEN gain
      ELSE [err |-> NoErr,
            value |-> [BlockFormat("DirectSpeakers", FALSE, position.value)
                         EXCEPT !.gain = gain.value]]

(***************************************************************************)
(* Positions of an Objects block.                                          *)
(***************************************************************************)
RECURSIVE sphericalPositionLoop(_, _, _)
sphericalPositionLoop(position, screenEdgeLock, nodes) ==
  IF nodes = <<>>
  THEN [err |-> NoErr, value |-> [position EXCEPT !.screenEdgeLock = screenEdgeLock]]
  ELSE LET element == Head(nodes)
           axe == parseCoordinateAttribute(element, SphericalAxes)
       IN  IF Threw(axe) THEN axe
           ELSE sphericalPositionLoop(
                  IF axe.value = "azimuth" \/ axe.value = "elevation"
                     \/ axe.value = "distance"
                  THEN [position EXCEPT !.coord[axe.value].value = Some(element.text)]
                  ELSE position,
                  IF axe.value = "azimuth"
                  THEN setEdge(screenEdgeLock, "horizontalEdge", element)
                  ELSE IF axe.value = "elevation"
                  THEN setEdge(screenEdgeLock, "verticalEdge", element)
                  ELSE screenEdgeLock,
                  Tail(nodes))

parseSphericalPosition(nodes) ==
  sphericalPositionLoop(EmptyPosition("spherical", SphericalAxes), NoScreenEdgeLock, nodes)

RECURSIVE cartesianPositionLoop(_, _)
cartesianPositionLoop(position, nodes) ==
  IF nodes = <<>> THEN [err |-> NoErr, value |-> position]
  ELSE LET element == Head(nodes)
           axe == parseCoordinateAttribute(element, CartesianAxes)
       IN  IF Threw(axe) THEN axe
           ELSE cartesianPositionLoop(
                  IF axe.value = "X" \/ axe.value = "Y" \/ axe.value = "Z"
                  THEN [position EXCEPT !.coord[axe.value].value = Some(element.text)]
                  ELSE position,
                  Tail(nodes))

parseCartesianPosition(nodes) ==
  cartesianPositionLoop(EmptyPosition("cartesian", CartesianAxes), nodes)

\* setOptionalElement<Cartesian>(node, "cartesian", ..): the flag of the first
\* cartesian child (text 1), FALSE by default
cartesianElement(node) ==
  LET elements == findElements(node, "cartesian")
  IN  IF elements = <<>> THEN FALSE ELSE elements[1].text = 1

\* parseAudioBlockFormatObjects keeping the flag of the cartesian child
parseAudioBlockFormatObjectsAsFlagged(node) ==
  LET cartesian == cartesianElement(node)
      position == IF cartesian = FALSE
                  THEN setMultiElement(node, "position",
                         parseSphericalPosition(findElements(node, "position")))
                  ELSE setMultiElement(node, "position",
                         parseCartesianPosition(findElements(node, "position")))
      gain == setGain(node)
  IN  IF Threw(position) THEN position
      ELSE IF Threw(gain) THEN gain
      ELSE [err |-> NoErr,
            value |-> [BlockFormat("Objects", cartesian, position.value)
                         EXCEPT !.gain = gain.value]]

parseAudioBlockFormatObjects(node) ==
  LET cartesianGuess == guessCartesianFlag(node, "position")
      cartesian == IF cartesianElement(node) # cartesianGuess
                   THEN cartesianGuess
                   ELSE cartesianElement(node)
      position == IF cartesian = FALSE
                  THEN setMultiElement(node, "position",
                         parseSphericalPosition(findElements(node, "position")))
                  ELSE setMultiElement(node, "position",
                         parseCartesianPosition(findElements(node, "position")))
      gain == setGain(node)
  IN  IF Threw(position) THEN position
      ELSE IF Threw(gain) THEN gain
      ELSE [err |-> NoErr,
            value |-> [BlockFormat("Objects", cartesian, position.value)
                         EXCEPT !.gain = gain.value]]

NoPosition == EmptyPosition("none", {})

parseAudioBlockFormatHoa(node) ==
  LET gain == setGain(node)
  IN  IF Threw(gain) THEN gain
      ELSE [err |-> NoErr,
            value |-> [BlockFormat("HOA", FALSE, NoPosition) EXCEPT !.gain = gain.value]]

parseAudioBlockFormatBinaural(node) ==
  LET gain == setGain(node)
  IN  IF Threw(gain) THEN gain
      ELSE [err |-> NoErr,
            value |-> [BlockFormat("Binaural", FALSE, NoPosition) EXCEPT !.gain = gain.value]]

(***************************************************************************)
(* The per-kind parse routines.  Each takes the id map and the queues of   *)
(* the parser and the node, and yields either the error it throws (with    *)
(* the queues as they stand at the throw) or the element it returns and    *)
(* the queues with the node's references recorded.                         *)
(***************************************************************************)
Fail(e, detail, queues) == [err |-> e, detail |-> detail, queues |-> queues]
Return(el, queues) == [err |-> NoErr, detail |-> <<>>, queues |-> queues, el |-> el]

\* checkChannelType: the explicit typeLabel / typeDefinition attributes must
\* agree with the type descriptor of the identifier and with each other
checkChannelType(id, typeLabel, typeDefinition) ==
  IF \/ typeLabel # NoAttr /\ typeLabel # id.td
     \/ typeDefinition # NoAttr /\ typeDefinition # id.td
     \/ typeLabel # NoAttr /\ typeDefinition # NoAttr /\ typeLabel # typeDefinition
  THEN Throw("TypeMismatchError")
  ELSE Throw(NoErr)

parseAudioProgramme(idMap, queues, node) ==
  LET name == parseNameAttribute(node)
      id == NodeId(node)
  IN  IF Threw(name) THEN Fail(name.err, <<>>, queues)
      ELSE IF contains(idMap, id) THEN Fail("XmlParsingDuplicateId", <<id>>, queues)
      ELSE Return(CreateElement(id),
                  addOptionalReferences(node, id, queues, "programmeContentRefs_"))

\* parseAudioContent looking its Objects up at once
parseAudioContentEager(idMap, queues, node) ==
  LET name == parseNameAttribute(node)
      id == NodeId(node)
      refs == findElements(node, "audioObjectIDRef")
  IN  IF Threw(name) THEN Fail(name.err, <<>>, queues)
      ELSE IF contains(idMap, id) THEN Fail("XmlParsingDuplicateId", <<id>>, queues)
      ELSE IF \E k \in 1..Len(refs) : ~contains(idMap, RefId("contentObjectRefs_", refs[k]))
      THEN Fail("DanglingReferenceError", <<>>, queues)
      ELSE Return(CreateElement(id),
                  addOptionalReferences(node, id, queues, "contentObjectRefs_"))

parseAudioContent(idMap, queues, node) ==
  LET name == parseNameAttribute(node)
      id == NodeId(node)
      dialogue == setOptionalElement(node, "dialogue",
                    parseContentKind(Head(findElements(node, "dialogue"))))
  IN  IF Threw(name) THEN Fail(name.err, <<>>, queues)
      ELSE IF contains(idMap, id) THEN Fail("XmlParsingDuplicateId", <<id>>, queues)
      ELSE IF Threw(dialogue) THEN Fail(dialogue.err, <<>>, queues)
      ELSE Return([CreateElement(id) EXCEPT !.dialogue = dialogue.value],
                  addOptionalReferences(node, id, queues, "contentObjectRefs_"))

\* parseGainInteractionRange: the loop over the gainInteractionRange
\* children, the children before the last one first
RECURSIVE parseGainInteractionRange(_)
parseGainInteractionRange(nodes) ==
  IF nodes = <<>> THEN [err |-> NoErr, value |-> [min |-> Unset, max |-> Unset]]
  ELSE LET gainInteraction == parseGainInteractionRange(SubSeq(nodes, 1, Len(nodes) - 1))
           element == nodes[Len(nodes)]
           bound == parseAttribute(element, "bound")
           gain == parseGain(element)
       IN  IF Threw(gainInteraction) THEN gainInteraction
           ELSE IF Threw(bound) THEN bound
           ELSE IF bound.value = "min"
           THEN IF Threw(gain) THEN gain
                ELSE [err |-> NoErr,
                      value |-> [gainInteraction.value EXCEPT !.min = Some(gain.value)]]
           ELSE IF bound.value = "max"
           THEN IF Threw(gain) THEN gain
                ELSE [err |-> NoErr,
                      value |-> [gainInteraction.value EXCEPT !.max = Some(gain.value)]]
           ELSE gainInteraction

\* parsePositionInteractionRange taking the axis from the coordinate only
RECURSIVE parsePositionInteractionRangeAnyBound(_)
parsePositionInteractionRangeAnyBound(nodes) ==
  IF nodes = <<>>
  THEN [err |-> NoErr,
        value |-> [a \in SphericalAxes \cup CartesianAxes |-> [min |-> Unset, max |-> Unset]]]
  ELSE LET positionInteraction ==
             parsePositionInteractionRangeAnyBound(SubSeq(nodes, 1, Len(nodes) - 1))
           element == nodes[Len(nodes)]
           bound == parseAttribute(element, "bound")
           coordinate == parseAttribute(element, "coordinate")
       IN  IF Threw(positionInteraction) THEN positionInteraction
           ELSE IF Threw(bound) THEN bound
           ELSE IF Threw(coordinate) THEN coordinate
           ELSE IF coordinate.value \in SphericalAxes \cup CartesianAxes
           THEN [err |-> NoErr,
                 value |-> [positionInteraction.value EXCEPT
                              ![coordinate.value].min = Some(element.text)]]
           ELSE positionInteraction

\* parsePositionInteractionRange: the loop over the positionInteractionRange
\* children, the children before the last one first; the twelve branches
\* are the pairs of one of six coordinates and min or max
RECURSIVE parsePositionInteractionRange(_)
parsePositionInteractionRange(nodes) ==
  IF nodes = <<>>
  THEN [err |-> NoErr,
        value |-> [a \in SphericalAxes \cup CartesianAxes |-> [min |-> Unset, max |-> Unset]]]
  ELSE LET positionInteraction ==
             parsePositionInteractionRange(SubSeq(nodes, 1, Len(nodes) - 1))
           element == nodes[Len(nodes)]
           bound == parseAttribute(element, "bound")
           coordinate == parseAttribute(element, "coordinate")
       IN  IF Threw(positionInteraction) THEN positionInteraction
           ELSE IF Threw(bound) THEN bound
           ELSE IF Threw(coordinate) THEN coordinate
           ELSE IF coordinate.value \in {"azimuth", "elevation", "distance", "X", "Y", "Z"}
                   /\ bound.value = "min"
           THEN [err |-> NoErr,
                 value |-> [positionInteraction.value EXCEPT
                              ![coordinate.value].min = Some(element.text)]]
           ELSE IF coordinate.value \in {"azimuth", "elevation", "distance", "X", "Y", "Z"}
                   /\ bound.value = "max"
           THEN [err |-> NoErr,
                 value |-> [positionInteraction.value EXCEPT
                              ![coordinate.value].max = Some(element.text)]]
           ELSE positionInteraction

\* parseAudioObjectInteraction: the required onOffInteract attribute and the
\* two interaction ranges
parseAudioObjectInteraction(node) ==
  LET onOffInteract == parseAttribute(node, "onOffInteract")
      gainInteractionRange ==
        setOptionalMultiElement(node, "gainInteractionRange",
          parseGainInteractionRange(findElements(node, "gainInteractionRange")))
      positionInteractionRange ==
        setOptionalMultiElement(node, "positionInteractionRange",
          parsePositionInteractionRange(findElements(node, "positionInteractionRange")))
  IN  IF Threw(onOffInteract) THEN onOffInteract
      ELSE IF Threw(gainInteractionRange) THEN gainInteractionRange
      ELSE IF Threw(positionInteractionRange) THEN positionInteractionRange
      ELSE [err |-> NoErr,
            value |-> [onOffInteract |-> onOffInteract.value,
                       gainInteractionRange |-> gainInteractionRange.value,
                       positionInteractionRange |-> positionInteractionRange.value]]

parseAudioObject(idMap, queues, node) ==
  LET name == parseNameAttribute(node)
      id == NodeId(node)
  IN  IF Threw(name) THEN Fail(name.err, <<>>, queues)
      ELSE IF contains(idMap, id) THEN Fail("XmlParsingDuplicateId", <<id>>, queues)
      ELSE
        LET audioObject == CreateElement(id)
            q1 == addOptionalReferences(node, id, queues, "objectObjectRefs_")
            q2 == addOptionalReferences(node, id, q1, "objectPackFormatRefs_")
            q3 == addOptionalReferences(node, id, q2, "objectTrackUidRefs_")
            interaction ==
              setOptionalElement(node, "audioObjectInteraction",
                parseAudioObjectInteraction(Head(findElements(node, "audioObjectInteraction"))))
            gain == setGain(node)
        IN  IF Threw(interaction) THEN Fail(interaction.err, <<>>, q3)
            ELSE IF Threw(gain) THEN Fail(gain.err, <<>>, q3)
            ELSE IF guessCartesianFlag(node, "positionOffset") = TRUE
            THEN LET offset == setOptionalMultiElement(node, "positionOffset",
                                   parseCartesianPositionOffset(findElements(node, "positionOffset")))
                 IN  IF Threw(offset) THEN Fail(offset.err, <<>>, q3)
                     ELSE Return([audioObject EXCEPT
                                    !.interaction = interaction.value,
                                    !.gain = gain.value,
                                    !.cartesianPositionOffset = offset.value], q3)
            ELSE LET offset == setOptionalMultiElement(node, "positionOffset",
                                   parseSphericalPositionOffset(findElements(node, "positionOffset")))
                 IN  IF Threw(offset) THEN Fail(offset.err, <<>>, q3)
                     ELSE Return([audioObject EXCEPT
                                    !.interaction = interaction.value,
                                    !.gain = gain.value,
                                    !.sphericalPositionOffset = offset.value], q3)

\* setOptionalAttribute<T>(node, name, target): the attribute's value when
\* the node has it
optionalAttribute(node, name) ==
  IF node[name] = NoAttr THEN Unset ELSE Some(node[name])

\* setCommonProperties: importance, absoluteDistance and the two kinds of
\* references of a pack format of either class
setCommonProperties(audioPackFormat, queues, node) ==
  Return([audioPackFormat EXCEPT
            !.importance = optionalAttribute(node, "importance"),
            !.absoluteDistance = optionalAttribute(node, "absoluteDistance")],
         addOptionalReferences(node, audioPackFormat.id,
           addOptionalReferences(node, audioPackFormat.id, queues,
                                 "packFormatChannelFormatRefs_"),
           "packFormatPackFormatRefs_"))

\* parseAudioPackFormat without the check of the channel type
parseAudioPackFormatUnchecked(idMap, queues, node) ==
  LET name == parseNameAttribute(node)
      id == NodeId(node)
  IN  IF Threw(name) THEN Fail(name.err, <<>>, queues)
      ELSE IF contains(idMap, id) THEN Fail("XmlParsingDuplicateId", <<id>>, queues)
      ELSE IF id.td = "HOA"
      THEN LET common == setCommonProperties(
                           [CreateElement(id) EXCEPT !.class = "AudioPackFormatHoa"],
                           queues, node)
           IN  Return([common.el EXCEPT
                         !.normalization = optionalAttribute(node, "normalization"),
                         !.screenRef = optionalAttribute(node, "screenRef"),
                         !.nfcRefDist = optionalAttribute(node, "nfcRefDist")],
                      common.queues)
      ELSE setCommonProperties(CreateElement(id), queues, node)

\* parseAudioPackFormat creating the HOA class for every type descriptor
parseAudioPackFormatAlwaysHoa(idMap, queues, node) ==
  LET name == parseNameAttribute(node)
      id == NodeId(node)
      check == checkChannelType(id, node.typeLabel, node.typeDefinition)
  IN  IF Threw(name) THEN Fail(name.err, <<>>, queues)
      ELSE IF contains(idMap, id) THEN Fail("XmlParsingDuplicateId", <<id>>, queues)
      ELSE IF Threw(check) THEN Fail(check.err, <<>>, queues)
      ELSE LET common == setCommonProperties(
                           [CreateElement(id) EXCEPT !.class = "AudioPackFormatHoa"],
                           queues, node)
           IN  Return([common.el EXCEPT
                         !.normalization = optionalAttribute(node, "normalization"),
                         !.screenRef = optionalAttribute(node, "screenRef"),
                         !.nfcRefDist = optionalAttribute(node, "nfcRefDist")],
                      common.queues)

parseAudioPackFormat(idMap, queues, node) ==
  LET name == parseNameAttribute(node)
      id == NodeId(node)
      check == checkChannelType(id, node.typeLabel, node.typeDefinition)
  IN  IF Threw(name) THEN Fail(name.err, <<>>, queues)
      ELSE IF contains(idMap, id) THEN Fail("XmlParsingDuplicateId", <<id>>, queues)
      ELSE IF Threw(check) THEN Fail(check.err, <<>>, queues)
      ELSE IF id.td = "HOA"
      THEN LET common == setCommonProperties(
                           [CreateElement(id) EXCEPT !.class = "AudioPackFormatHoa"],
                           queues, node)
           IN  Return([common.el EXCEPT
                         !.normalization = optionalAttribute(node, "normalization"),
                         !.screenRef = optionalAttribute(node, "screenRef"),
                         !.nfcRefDist = optionalAttribute(node, "nfcRefDist")],
                      common.queues)
      ELSE setCommonProperties(CreateElement(id), queues, node)

\* the Objects block parser for every type descriptor
parseBlockAsObjects(td, element) == parseAudioBlockFormatObjects(element)

\* the block parser selected by the channel format's type descriptor
parseBlock(td, element) ==
  IF td = "DirectSpeakers" THEN parseAudioBlockFormatDirectSpeakers(element)
  ELSE IF td = "Objects" THEN parseAudioBlockFormatObjects(element)
  ELSE IF td = "HOA" THEN parseAudioBlockFormatHoa(element)
  ELSE parseAudioBlockFormatBinaural(element)

RECURSIVE parseBlocks(_, _, _)
parseBlocks(td, elements, blocks) ==
  IF elements = <<>> THEN [err |-> NoErr, value |-> blocks]
  ELSE LET block == parseBlock(td, Head(elements))
       IN  IF Threw(block) THEN block
           ELSE parseBlocks(td, Tail(elements), Append(blocks, block.value))

parseAudioChannelFormat(idMap, queues, node) ==
  LET name == parseNameAttribute(node)
      id == NodeId(node)
      check == checkChannelType(id, node.typeLabel, node.typeDefinition)
      frequency == setOptionalMultiElement(node, "frequency",
                     parseFrequency(findElements(node, "frequency")))
      elements == findElements(node, "audioBlockFormat")
      blocks == IF id.td \in {"DirectSpeakers", "Objects", "HOA", "Binaural"}
                THEN parseBlocks(id.td, elements, <<>>)
                ELSE [err |-> NoErr, value |-> <<>>]
  IN  IF Threw(name) THEN Fail(name.err, <<>>, queues)
      ELSE IF contains(idMap, id) THEN Fail("XmlParsingDuplicateId", <<id>>, queues)
      ELSE IF Threw(check) THEN Fail(check.err, <<>>, queues)
      ELSE IF Threw(frequency) THEN Fail(frequency.err, <<>>, queues)
      ELSE IF Threw(blocks) THEN Fail(blocks.err, <<>>, queues)
      ELSE Return([CreateElement(id) EXCEPT
                     !.frequency = IF IsSet(frequency.value) THEN frequency.value[1] ELSE @,
                     !.blocks = blocks.value], queues)

parseAudioStreamFormat(idMap, queues, node) ==
  LET name == parseNameAttribute(node)
      id == NodeId(node)
  IN  IF Threw(name) THEN Fail(name.err, <<>>, queues)
      ELSE IF contains(idMap, id) THEN Fail("XmlParsingDuplicateId", <<id>>, queues)
      ELSE
        LET q1 == setOptionalReference(node, id, queues, "streamFormatChannelFormatRef_")
            q2 == setOptionalReference(node, id, q1, "streamFormatPackFormatRef_")
            q3 == addOptionalReferences(node, id, q2, "streamFormatTrackFormatRefs_")
        IN  Return(CreateElement(id), q3)

parseAudioTrackFormat(idMap, queues, node) ==
  LET name == parseNameAttribute(node)
      id == NodeId(node)
  IN  IF Threw(name) THEN Fail(name.err, <<>>, queues)
      ELSE IF contains(idMap, id) THEN Fail("XmlParsingDuplicateId", <<id>>, queues)
      ELSE Return(CreateElement(id),
                  setOptionalReference(node, id, queues, "trackFormatStreamFormatRef_"))

parseAudioTrackUid(idMap, queues, node) ==
  LET id == NodeId(node)
  IN  IF contains(idMap, id) THEN Fail("XmlParsingDuplicateId", <<id>>, queues)
      ELSE
        LET q1 == setOptionalReference(node, id, queues, "trackUidChannelFormatRef_")
            q2 == setOptionalReference(node, id, q1, "trackUidTrackFormatRef_")
            q3 == setOptionalReference(node, id, q2, "trackUidPackFormatRef_")
        IN  Return(CreateElement(id), q3)

(***************************************************************************)
(* XmlParser: its state as a record, add(), the loop body and the          *)
(* resolution of the queues.                                               *)
(***************************************************************************)
Parser(document, idMap, queues, err, detail) ==
  [document |-> document, idMap |-> idMap, queues |-> queues,
   err |-> err, detail |-> detail]

\* the identifiers of the elements of a document
IdsOf(document) == { document[i].id : i \in 1..Len(document) }

\* Document::add
documentAdd(document, el) == Append(document, el)

\* Document::getElements<Kind>: the elements of that kind, in the order of
\* their insertion
getElements(document, kind) == SelectSeq(document, LAMBDA el : el.id.kind = kind)

\* add() that forgets the id map
addDocumentOnly(P, r) ==
  [P EXCEPT !.document = documentAdd(@, r.el),
            !.queues = r.queues]

\* add() putting the element in front of those the document holds
addInFront(P, r) ==
  [P EXCEPT !.document = <<r.el>> \o @,
            !.idMap = @ \cup {r.el.id},
            !.queues = r.queues]

\* XmlParser::add: the element goes into the target document, then the id map
add(P, r) ==
  [P EXCEPT !.document = documentAdd(@, r.el),
            !.idMap = @ \cup {r.el.id},
            !.queues = r.queues]

\* IdMap::lookup
lookup(map, id) == IF id \in map THEN Some(id) ELSE Unset

\* addReference on the source element: the target joins those held
addReference(document, src, r, target) ==
  LET i == CHOOSE k \in 1..Len(document) : document[k].id = src
  IN  [document EXCEPT ![i].rel[r] = Append(@, target)]

\* setReference on the source element: the target replaces the one held
setReference(document, src, r, target) ==
  LET i == CHOOSE k \in 1..Len(document) : document[k].id = src
  IN  [document EXCEPT ![i].rel[r] = Some(target)]

\* the pending references of a queue, in queue order: the target is looked
\* up and attached to the source; a target that is not there is an error
RECURSIVE resolveEntries(_, _, _, _)
resolveEntries(P, r, entries, single) ==
  IF entries = <<>> THEN P
  ELSE LET entry == Head(entries)
           found == lookup(P.idMap, entry.target)
       IN  IF ~IsSet(found)
           THEN [P EXCEPT !.err = "DanglingReferenceError",
                          !.detail = <<entry.target>>]
           ELSE resolveEntries(
                  [P EXCEPT !.document =
                     IF single THEN setReference(@, entry.src, r, found[1])
                     ELSE addReference(@, entry.src, r, found[1])],
                  r, Tail(entries), single)

\* resolveReferences(queue), for the queues of multi-valued roles
resolveReferences(P, r) == resolveEntries(P, r, P.queues[r], FALSE)

\* resolveReference(queue), for the queues of single-valued roles
resolveReference(P, r) == resolveEntries(P, r, P.queues[r], TRUE)

resolveCall(P, c) ==
  IF c.call = "resolveReference" THEN resolveReference(P, c.queue)
  ELSE resolveReferences(P, c.queue)

\* calls made one after the other; a throw ends them
RECURSIVE resolveCalls(_, _)
resolveCalls(P, calls) ==
  IF calls = <<>> \/ P.err # NoErr THEN P
  ELSE resolveCalls(resolveCall(P, Head(calls)), Tail(calls))

\* parse() without the call for the Objects' PackFormat references
resolveAllButObjectPackFormats(P) ==
  resolveCalls(P, SelectSeq(ResolveOrder, LAMBDA c : c.queue # "objectPackFormatRefs_"))

\* parse() resolving every queue with resolveReference
resolveAllSingly(P) ==
  resolveCalls(P, [k \in 1..Len(ResolveOrder) |-> ResolveReference(ResolveOrder[k].queue)])

\* parse() refusing two elements that hold each other
resolveAllRejectingCycles(P) ==
  LET R == resolveCalls(P, ResolveOrder)
      doc == R.document
  IN  IF /\ R.err = NoErr
         /\ \E i, j \in 1..Len(doc) : \E r \in DOMAIN doc[i].rel \cap DOMAIN doc[j].rel :
              /\ i # j
              /\ \E k \in 1..Len(doc[i].rel[r]) : doc[i].rel[r][k] = doc[j].id
              /\ \E k \in 1..Len(doc[j].rel[r]) : doc[j].rel[r][k] = doc[i].id
      THEN [R EXCEPT !.err = "CyclicReferenceError"]
      ELSE R

\* the fourteen calls at the end of parse()
resolveAll(P) == resolveCalls(P, ResolveOrder)

\* the body of the loop resolving the pending references after each element
parseChildEager(P, node) ==
  LET nodeName == node.name
      Added(r) ==
        IF Threw(r)
        THEN [P EXCEPT !.err = r.err, !.detail = r.detail, !.queues = r.queues]
        ELSE [resolveAll(add(P, r)) EXCEPT !.queues = EmptyQueues]
  IN  IF nodeName \notin ElementKinds THEN P
      ELSE Added(
           IF nodeName = "audioProgramme" THEN parseAudioProgramme(P.idMap, P.queues, node)
           ELSE IF nodeName = "audioContent" THEN parseAudioContent(P.idMap, P.queues, node)
           ELSE IF nodeName = "audioObject" THEN parseAudioObject(P.idMap, P.queues, node)
           ELSE IF nodeName = "audioTrackUID" THEN parseAudioTrackUid(P.idMap, P.queues, node)
           ELSE IF nodeName = "audioPackFormat" THEN parseAudioPackFormat(P.idMap, P.queues, node)
           ELSE IF nodeName = "audioChannelFormat" THEN parseAudioChannelFormat(P.idMap, P.queues, node)
           ELSE IF nodeName = "audioStreamFormat" THEN parseAudioStreamFormat(P.idMap, P.queues, node)
           ELSE IF nodeName = "audioTrackFormat" THEN parseAudioTrackFormat(P.idMap, P.queues, node)
           ELSE Fail(NoErr, <<>>, P.queues))

\* the body of the loop rejecting the names it does not know
parseChildRejectingOthers(P, node) ==
  IF node.name \notin ElementKinds
  THEN [P EXCEPT !.err = "XmlParsingError(unknown element)"]
  ELSE LET nodeName == node.name
           r == IF nodeName = "audioProgramme" THEN parseAudioProgramme(P.idMap, P.queues, node)
                ELSE IF nodeName = "audioContent" THEN parseAudioContent(P.idMap, P.queues, node)
                ELSE IF nodeName = "audioObject" THEN parseAudioObject(P.idMap, P.queues, node)
                ELSE IF nodeName = "audioTrackUID" THEN parseAudioTrackUid(P.idMap, P.queues, node)
                ELSE IF nodeName = "audioPackFormat" THEN parseAudioPackFormat(P.idMap, P.queues, node)
                ELSE IF nodeName = "audioChannelFormat" THEN parseAudioChannelFormat(P.idMap, P.queues, node)
                ELSE IF nodeName = "audioStreamFormat" THEN parseAudioStreamFormat(P.idMap, P.queues, node)
                ELSE parseAudioTrackFormat(P.idMap, P.queues, node)
       IN  IF Threw(r)
           THEN [P EXCEPT !.err = r.err, !.detail = r.detail, !.queues = r.queues]
           ELSE add(P, r)

\* the body of the loop going on to the next child after a failure
parseChildSkippingFailed(P, node) ==
  LET nodeName == node.name
      Added(r) == IF Threw(r) THEN P ELSE add(P, r)
  IN  IF nodeName \notin ElementKinds THEN P
      ELSE Added(
           IF nodeName = "audioProgramme" THEN parseAudioProgramme(P.idMap, P.queues, node)
           ELSE IF nodeName = "audioContent" THEN parseAudioContent(P.idMap, P.queues, node)
           ELSE IF nodeName = "audioObject" THEN parseAudioObject(P.idMap, P.queues, node)
           ELSE IF nodeName = "audioTrackUID" THEN parseAudioTrackUid(P.idMap, P.queues, node)
           ELSE IF nodeName = "audioPackFormat" THEN parseAudioPackFormat(P.idMap, P.queues, node)
           ELSE IF nodeName = "audioChannelFormat" THEN parseAudioChannelFormat(P.idMap, P.queues, node)
           ELSE IF nodeName = "audioStreamFormat" THEN parseAudioStreamFormat(P.idMap, P.queues, node)
           ELSE IF nodeName = "audioTrackFormat" THEN parseAudioTrackFormat(P.idMap, P.queues, node)
           ELSE Fail(NoErr, <<>>, P.queues))

\* the body of the loop over the root's children: dispatch on the node's name
parseChild(P, node) ==
  LET nodeName == node.name
      Added(r) ==
        IF Threw(r)
        THEN [P EXCEPT !.err = r.err, !.detail = r.detail, !.queues = r.queues]
        ELSE add(P, r)
  IN  IF nodeName \notin ElementKinds THEN P
      ELSE Added(
           IF nodeName = "audioProgramme" THEN parseAudioProgramme(P.idMap, P.queues, node)
           ELSE IF nodeName = "audioContent" THEN parseAudioContent(P.idMap, P.queues, node)
           ELSE IF nodeName = "audioObject" THEN parseAudioObject(P.idMap, P.queues, node)
           ELSE IF nodeName = "audioTrackUID" THEN parseAudioTrackUid(P.idMap, P.queues, node)
           ELSE IF nodeName = "audioPackFormat" THEN parseAudioPackFormat(P.idMap, P.queues, node)
           ELSE IF nodeName = "audioChannelFormat" THEN parseAudioChannelFormat(P.idMap, P.queues, node)
           ELSE IF nodeName = "audioStreamFormat" THEN parseAudioStreamFormat(P.idMap, P.queues, node)
           ELSE IF nodeName = "audioTrackFormat" THEN parseAudioTrackFormat(P.idMap, P.queues, node)
           ELSE Fail(NoErr, <<>>, P.queues))

\* the loop over the root's children: a throw ends it
RECURSIVE parseChildren(_, _)
parseChildren(P, ns) ==
  IF ns = <<>> \/ P.err # NoErr THEN P
  ELSE parseChildren(parseChild(P, Head(ns)), Tail(ns))

\* parse() of a located root with children ns, as a function of the parser
parseRoot(P, ns) ==
  LET Q == parseChildren(P, ns)
  IN  IF Q.err # NoErr THEN Q ELSE resolveAll(Q)

(***************************************************************************)
(* Locating the audioFormatExtended root.  The markup above the root is a  *)
(* tree of nodes [name, children]; a node of the tree is named by its      *)
(* path, the positions of its ancestors and itself among their siblings,   *)
(* the top node having the empty path.                                     *)
(***************************************************************************)
Tree(name, children) == [name |-> name, children |-> children]

\* detail::findElements(node, name), as the positions of the children found
findPositions(node, name) ==
  SelectSeq([k \in 1..Len(node.children) |-> k],
            LAMBDA k : node.children[k].name = name)

\* searches only the first audioFormatExtended under the first format
findAudioFormatExtendedNodeEbuCoreLenient(node) ==
  LET coreMetadataNodes == findPositions(node, "coreMetadata")
  IN  IF node.name # "ebuCoreMain" \/ coreMetadataNodes = <<>> THEN Unset
      ELSE LET formatNodes == findPositions(node.children[coreMetadataNodes[1]], "format")
           IN  IF formatNodes = <<>> THEN Unset
               ELSE LET audioFormatExtendedNodes ==
                          findPositions(node.children[coreMetadataNodes[1]].children[formatNodes[1]],
                                        "audioFormatExtended")
                    IN  IF audioFormatExtendedNodes = <<>> THEN Unset
                        ELSE Some(<< coreMetadataNodes[1], formatNodes[1],
                                     audioFormatExtendedNodes[1] >>)

findAudioFormatExtendedNodeEbuCore(node) ==
  IF node.name # "ebuCoreMain" THEN Unset
  ELSE LET coreMetadataNodes == findPositions(node, "coreMetadata")
       IN  IF Len(coreMetadataNodes) # 1 THEN Unset
           ELSE LET formatNodes == findPositions(node.children[coreMetadataNodes[1]], "format")
                IN  IF Len(formatNodes) # 1 THEN Unset
                    ELSE LET audioFormatExtendedNodes ==
                               findPositions(node.children[coreMetadataNodes[1]].children[formatNodes[1]],
                                             "audioFormatExtended")
                         IN  IF Len(audioFormatExtendedNodes) # 1 THEN Unset
                             ELSE Some(<< coreMetadataNodes[1], formatNodes[1],
                                          audioFormatExtendedNodes[1] >>)

RECURSIVE findAudioFormatExtendedNodeFullRecursive(_, _)
RECURSIVE firstFullRecursive(_, _, _)
\* the loop over the children of findAudioFormatExtendedNodeFullRecursive,
\* from the k-th child on
firstFullRecursive(node, path, k) ==
  IF k > Len(node.children) THEN Unset
  ELSE LET rtnNode == findAudioFormatExtendedNodeFullRecursive(node.children[k],
                                                               Append(path, k))
       IN  IF IsSet(rtnNode) THEN rtnNode
           ELSE firstFullRecursive(node, path, k + 1)

findAudioFormatExtendedNodeFullRecursive(node, path) ==
  IF node.name = "audioFormatExtended" THEN Some(path)
  ELSE firstFullRecursive(node, path, 1)

\* falls back to the recursive search when the EBU Core path is not there
findRootEitherStrategy(xml, recursive) ==
  IF recursive \/ ~IsSet(findAudioFormatExtendedNodeEbuCore(xml[1]))
  THEN findAudioFormatExtendedNodeFullRecursive(xml[1], <<>>)
  ELSE findAudioFormatExtendedNodeEbuCore(xml[1])

\* the root parse() works on: xml is << >> for a document without a node,
\* else << the first node >>; recursive is the option recursive_node_search
findRoot(xml, recursive) ==
  IF recursive THEN findAudioFormatExtendedNodeFullRecursive(xml[1], <<>>)
  ELSE findAudioFormatExtendedNodeEbuCore(xml[1])

(***************************************************************************)
(* The writer (writeXml), the peer of the parser: its code is not part of  *)
(* the sources at hand; it is modelled from the specification as writing,  *)
(* for each element, what the element holds.                               *)
(***************************************************************************)
\* a number as text
formatNumber(n) ==
  IF n = 0 THEN "0" ELSE IF n = 1 THEN "1" ELSE IF n = 2 THEN "2" ELSE "3"

RECURSIVE Concat(_)
Concat(seqs) == IF seqs = <<>> THEN <<>> ELSE Head(seqs) \o Concat(Tail(seqs))

\* the reference children of an element: one for each target it holds, the
\* roles in the order of their resolution
writeReferences(el) ==
  LET rs == SelectSeq([i \in 1..Len(ResolveOrder) |-> ResolveOrder[i].queue],
                      LAMBDA r : r \in RolesOf(el.id.kind))
  IN  Concat([i \in 1..Len(rs) |->
                [k \in 1..Len(el.rel[rs[i]]) |->
                   RefChild(Roles[rs[i]].ref, el.rel[rs[i]][k].td, el.rel[rs[i]][k].value)]])

\* the children of that name for the coordinates of a position: for each
\* axis its value, its minimum and its maximum, where set
writeCoordinates(name, axes, coord, screenEdgeLock) ==
  LET edge(a) == IF a \in {"azimuth", "X"} /\ IsSet(screenEdgeLock.horizontalEdge)
                 THEN screenEdgeLock.horizontalEdge[1]
                 ELSE IF a \in {"elevation", "Y"} /\ IsSet(screenEdgeLock.verticalEdge)
                 THEN screenEdgeLock.verticalEdge[1]
                 ELSE NoAttr
      written(a) ==
        (IF IsSet(coord[a].value)
         THEN << [PosChild(name, a, NoAttr, coord[a].value[1]) EXCEPT
                    !.screenEdgeLock = edge(a)] >>
         ELSE <<>>)
        \o (IF IsSet(coord[a].min) THEN << PosChild(name, a, "min", coord[a].min[1]) >> ELSE <<>>)
        \o (IF IsSet(coord[a].max) THEN << PosChild(name, a, "max", coord[a].max[1]) >> ELSE <<>>)
  IN  Concat([i \in 1..Len(axes) |-> written(axes[i])])

\* <gain>, if the gain is set
writeGain(gain) ==
  IF IsSet(gain)
  THEN << GainChild(IF gain[1].unit = "dB" THEN "dB" ELSE NoAttr, formatNumber(gain[1].value)) >>
  ELSE <<>>

\* <audioBlockFormat> with its cartesian flag, its position and its gain
writeBlock(block) ==
  LET axes == IF block.position.shape = "cartesian" THEN << "X", "Y", "Z" >>
              ELSE IF block.position.shape = "spherical"
              THEN << "azimuth", "elevation", "distance" >>
              ELSE <<>>
  IN  Child("audioBlockFormat", NoAttr, 1, NoAttr, NoAttr,
            (IF block.cartesian
             THEN << Child("cartesian", NoAttr, 1, NoAttr, NoAttr, <<>>) >> ELSE <<>>)
            \o writeCoordinates("position", axes, block.position.coord,
                                block.position.screenEdgeLock)
            \o writeGain(block.gain))

\* the node of an element
writeElement(el) ==
  LET plain(offset) == [a \in DOMAIN offset |->
                          [value |-> offset[a], min |-> Unset, max |-> Unset]]
      dialogue ==
        IF ~IsSet(el.dialogue) THEN <<>>
        ELSE IF el.dialogue[1].kind = "NonDialogueContentKind"
        THEN << DialogueChild("0", el.dialogue[1].value, NoAttr, NoAttr) >>
        ELSE IF el.dialogue[1].kind = "DialogueContentKind"
        THEN << DialogueChild("1", NoAttr, el.dialogue[1].value, NoAttr) >>
        ELSE << DialogueChild("2", NoAttr, NoAttr, el.dialogue[1].value) >>
      frequency ==
        (IF IsSet(el.frequency.lowPass)
         THEN << FrequencyChild("lowPass", el.frequency.lowPass[1]) >> ELSE <<>>)
        \o (IF IsSet(el.frequency.highPass)
            THEN << FrequencyChild("highpass", el.frequency.highPass[1]) >> ELSE <<>>)
      offset ==
        (IF IsSet(el.sphericalPositionOffset)
         THEN writeCoordinates("positionOffset", << "azimuth", "elevation", "distance" >>,
                               plain(el.sphericalPositionOffset[1]), NoScreenEdgeLock)
         ELSE <<>>)
        \o (IF IsSet(el.cartesianPositionOffset)
            THEN writeCoordinates("positionOffset", << "X", "Y", "Z" >>,
                                  plain(el.cartesianPositionOffset[1]), NoScreenEdgeLock)
            ELSE <<>>)
  IN  [Node(el.id.kind, TRUE, el.id.td, el.id.value,
            dialogue \o writeReferences(el) \o writeGain(el.gain) \o offset \o frequency
            \o [k \in 1..Len(el.blocks) |-> writeBlock(el.blocks[k])])
         EXCEPT !.typeDefinition = IF el.id.kind \in TypedKinds THEN el.id.td ELSE NoAttr]

\* writeXml: the children of the root written for a document, kind by kind
writeXml(document) ==
  Concat([i \in 1..Len(ElementNames) |->
            [k \in 1..Len(getElements(document, ElementNames[i])) |->
               writeElement(getElements(document, ElementNames[i])[k])]])


(***************************************************************************)
(* The documents fed to the parser.                                        *)
(***************************************************************************)
SeqsUpTo(S, n) == UNION { [1..k -> S] : k \in 0..n }

\* the type descriptor of the typed identifiers of reference documents
RefTd == "Objects"

\* the reference children a node of that kind may hold
RefChildrenOf(kind) ==
  { RefChild(Roles[r].ref, IF Roles[r].tgt \in TypedKinds THEN RefTd ELSE NoAttr, v) :
      r \in RolesOf(kind), v \in 1..NumIds }

\* The families of nodes a document is drawn from.  Each takes the number
\* of reference children and of position children the document may still
\* hold.

\* nodes of every kind (and of an unknown name) with reference children; a
\* node without its name attribute is childless
RefNodes(nRefs, nPos) ==
  UNION { { Node(k, TRUE, IF k \in TypedKinds THEN RefTd ELSE NoAttr, v, cs) :
              v \in 1..NumIds, cs \in SeqsUpTo(RefChildrenOf(k), nRefs) } :
          k \in ElementKinds }
  \cup { Node(k, FALSE, IF k \in TypedKinds THEN RefTd ELSE NoAttr, v, <<>>) :
      k \in NamedKinds, v \in {1} }
  \cup { Node("other", TRUE, NoAttr, v, <<>>) : v \in {1} }

\* the coordinate markers tried: the six axes, none, and a value that names
\* no axis
Markers == CartesianAxes \cup SphericalAxes \cup {NoAttr, "other"}

\* audioObject nodes with positionOffset children
OffsetNodes(nRefs, nPos) ==
  { Node("audioObject", TRUE, NoAttr, v, cs) :
      v \in 1..NumIds,
      cs \in SeqsUpTo({ PosChild("positionOffset", c, NoAttr, t) :
                          c \in Markers, t \in 1..NumVals }, nPos) }

\* audioBlockFormat children with position children
SpeakerBlocks(nPos) ==
  { Child("audioBlockFormat", NoAttr, 1, NoAttr, NoAttr, cs) :
      cs \in SeqsUpTo({ PosChild("position", c, b, t) :
                          c \in Markers, b \in BoundValues \cup {NoAttr, "other"},
                          t \in 1..NumVals }, nPos) }

\* DirectSpeakers audioChannelFormat nodes with at most one block
SpeakerNodes(nRefs, nPos) ==
  { Node("audioChannelFormat", TRUE, "DirectSpeakers", v, bs) :
      v \in 1..NumIds, bs \in SeqsUpTo(SpeakerBlocks(nPos), 1) }

\* the gain units and texts tried
GainUnits == {NoAttr, "linear", "dB", "db"}
GainTexts == {"1", "2", "1x", "x"}

\* audioObject nodes with at most one gain child
GainNodes(nRefs, nPos) ==
  { Node("audioObject", TRUE, NoAttr, v, cs) :
      v \in 1..NumIds,
      cs \in SeqsUpTo({ GainChild(u, t) : u \in GainUnits, t \in GainTexts },
                      IF nPos > 0 THEN 1 ELSE 0) }

\* the discriminator texts tried
DialogueTexts == {"0", "1", "2", "3", "1x", "x"}

\* audioContent nodes with at most one dialogue child, each companion
\* attribute absent or of a value of its own
DialogueNodes(nRefs, nPos) ==
  { Node("audioContent", TRUE, NoAttr, v, cs) :
      v \in 1..NumIds,
      cs \in SeqsUpTo({ DialogueChild(t, n, d, m) :
                          t \in DialogueTexts, n \in {NoAttr, "1"},
                          d \in {NoAttr, "2"}, m \in {NoAttr, "3"} },
                      IF nPos > 0 THEN 1 ELSE 0) }

\* the type markers of a frequency tried, none included
FrequencyTypes == {"lowPass", "highpass", "highPass", "lowpass", "other", NoAttr}

\* audioChannelFormat nodes with frequency children
FrequencyNodes(nRefs, nPos) ==
  { Node("audioChannelFormat", TRUE, "DirectSpeakers", v, cs) :
      v \in 1..NumIds,
      cs \in SeqsUpTo({ FrequencyChild(m, t) : m \in FrequencyTypes, t \in 1..NumVals },
                      nPos) }

\* childless audioPackFormat and audioChannelFormat nodes of two type
\* descriptors, with and without typeLabel and typeDefinition
TypedNodes(nRefs, nPos) ==
  { [Node(k, TRUE, td, v, <<>>) EXCEPT !.typeLabel = tl, !.typeDefinition = tdef] :
      k \in TypedKinds, td \in {"DirectSpeakers", "Objects"}, v \in 1..NumIds,
      tl \in {NoAttr, "DirectSpeakers", "Objects"},
      tdef \in {NoAttr, "DirectSpeakers", "Objects"} }

\* named nodes of every kind, at most one of a document with a child: a
\* reference, a gain, a dialogue, a frequency, a position offset or a block
FeaturedNodes(nRefs, nPos) ==
  LET fresh == nRefs = MaxRefs /\ nPos = MaxPos
  IN  { n \in RefNodes(IF fresh THEN 1 ELSE 0, 0) : n.nameAttr }
      \cup (IF fresh
            THEN { n \in GainNodes(0, 1) \cup DialogueNodes(0, 1) \cup FrequencyNodes(0, 1)
                         \cup OffsetNodes(0, 1) \cup SpeakerNodes(0, 1) : n.id = 1 }
            ELSE {})

\* elements with the parameters that select a variant or a field: a
\* channel format of an Objects or DirectSpeakers block whose position
\* children carry coordinate, bound and screenEdgeLock markers (the k-th
\* child having the text k) and, in an Objects block, a cartesian child; a
\* channel format of every type descriptor with up to two blocks; an
\* Object with an audioObjectInteraction of up to two interaction range
\* children; a pack format of three type descriptors with its attributes
\* and a reference
VariantNodes(nRefs, nPos) ==
  LET Block(cs) == Child("audioBlockFormat", NoAttr, 1, NoAttr, NoAttr, cs)
      Position(c, b, l, k) == [PosChild("position", c, b, k) EXCEPT !.screenEdgeLock = l]
      Groups ==
        { [k \in 1..Len(g) |-> Position(g[k][1], g[k][2], g[k][3], k)] :
            g \in SeqsUpTo(Markers \X (BoundValues \cup {NoAttr}) \X {NoAttr, "left"}, nPos) }
      Flags == {<<>>} \cup { << Child("cartesian", NoAttr, t, NoAttr, NoAttr, <<>>) >> : t \in {0, 1} }
      PositionNodes ==
        { Node("audioChannelFormat", TRUE, "Objects", 1, << Block(f \o g) >>) :
            f \in Flags, g \in Groups }
        \cup { Node("audioChannelFormat", TRUE, "DirectSpeakers", 1, << Block(g) >>) :
                 g \in Groups }
      Blocks ==
        { Block(<< Position("X", NoAttr, NoAttr, 1), GainChild(NoAttr, v) >>) : v \in {"1", "2"} }
        \cup { Block(<< GainChild(NoAttr, "1") >>) }
      BlockNodes ==
        { Node("audioChannelFormat", TRUE, td, 1, bs) :
            td \in TypeDescriptors \cup {"Undefined"}, bs \in SeqsUpTo(Blocks, 2) }
      GainRange(u, v, b) ==
        [GainChild(u, v) EXCEPT !.name = "gainInteractionRange", !.bound = b]
      GainRanges ==
        SeqsUpTo({ GainRange(u, v, b) : u \in {NoAttr, "dB"}, v \in {"1", "2", "x"},
                                        b \in BoundValues \cup {NoAttr, "other"} }, 2)
      PositionRanges(n) ==
        { [k \in 1..Len(g) |-> PosChild("positionInteractionRange", g[k][1], g[k][2], k)] :
            g \in SeqsUpTo(Markers \X (BoundValues \cup {NoAttr, "other"}), n) }
      Interactions ==
        UNION { { [Child("audioObjectInteraction", NoAttr, 1, NoAttr, NoAttr, gs \o ps)
                     EXCEPT !.onOffInteract = o] :
                    o \in {NoAttr, "1"}, ps \in PositionRanges(2 - Len(gs)) } :
                gs \in GainRanges }
      InteractionNodes ==
        { Node("audioObject", TRUE, NoAttr, 1, << c >>) : c \in Interactions }
      PackNodes ==
        { [Node("audioPackFormat", TRUE, td, 1, cs) EXCEPT
             !.importance = i, !.absoluteDistance = a, !.normalization = n,
             !.screenRef = s, !.nfcRefDist = d] :
            td \in {"HOA", "Objects", "DirectSpeakers"},
            i \in {NoAttr, "1"}, a \in {NoAttr, "2"}, n \in {NoAttr, "SN3D"},
            s \in {NoAttr, "1"}, d \in {NoAttr, "2"},
            cs \in SeqsUpTo(RefChildrenOf("audioPackFormat"), IF nRefs > 0 THEN 1 ELSE 0) }
  IN  PositionNodes \cup BlockNodes \cup InteractionNodes \cup PackNodes

\* childless audioObject nodes and nodes of an unknown name
PlainNodes(nRefs, nPos) ==
  { Node(k, TRUE, NoAttr, v, <<>>) : k \in {"audioObject", "other"}, v \in 1..NumIds }

\* the target documents handed to the parser
Seeds == { <<>> }

\* a target document holding a PackFormat and a ChannelFormat already (as
\* the common definitions do)
SeededDocuments ==
  { << CreateElement(MakeId("audioPackFormat", RefTd, 1)),
       CreateElement(MakeId("audioChannelFormat", RefTd, 1)) >> }

\* the markup above the root's children
AudioFormatExtended == Tree("audioFormatExtended", <<>>)
Other == Tree("other", <<>>)

\* the sequences of at most two nodes, the first of F and the second of S
UpToTwo(F, S) ==
  {<<>>} \cup { <<f>> : f \in F } \cup { <<f, g>> : f \in F, g \in S }

FormatNodes ==
  { Tree("format", cs) : cs \in SeqsUpTo({AudioFormatExtended, Other}, 2) } \cup {Other}

CoreMetadataNodes ==
  { Tree("coreMetadata", cs) :
      cs \in UpToTwo(FormatNodes, { Tree("format", <<>>),
                                    Tree("format", <<AudioFormatExtended>>), Other }) }
  \cup {Other, AudioFormatExtended}

TopNodes ==
  { Tree(n, cs) :
      n \in {"ebuCoreMain", "other"},
      cs \in UpToTwo(CoreMetadataNodes,
                     { Tree("coreMetadata", <<>>),
                       Tree("coreMetadata", << Tree("format", <<AudioFormatExtended>>) >>),
                       AudioFormatExtended, Other }) }
  \cup {AudioFormatExtended}

\* documents of every such shape, and the document without a node
TreeDocuments == {<<>>} \cup { <<t>> : t \in TopNodes }

\* the EBU Core document, the document without a root and the empty one
EbuCoreMain ==
  Tree("ebuCoreMain",
       << Tree("coreMetadata", << Tree("format", <<AudioFormatExtended>>) >>) >>)

Documents == { <<>>, << Tree("ebuCoreMain", <<>>) >>, <<EbuCoreMain>> }

\* the children of that name set among cs, those inside blocks included
RECURSIVE CountChildren(_, _)
CountChildren(cs, names) ==
  IF cs = <<>> THEN 0
  ELSE (IF Head(cs).name \in names THEN 1 ELSE 0)
       + CountChildren(Head(cs).children, names)
       + CountChildren(Tail(cs), names)

RefNames == { Roles[r].ref : r \in RoleNames }
PosNames == {"position", "positionOffset", "gain", "dialogue", "frequency"}

(***************************************************************************)
(* The state machine of one XmlParser: construction, then parse().         *)
(***************************************************************************)
VARIABLES
  pc,        \* "start", "ingest" (in the loop), "done" (returned), "error" (threw)
  phase,     \* the part of parse() entered last: "locate", "ingest", "resolve"
  dest,      \* the target document as handed to the constructor
  nodes,     \* the root's children visited so far, in document order
  document,  \* document_: the elements of the target document, in insertion order
  idMap,     \* idMap_: the identifiers known to the parser
  queues,    \* the fourteen pending-reference queues
  err,       \* the error thrown, or NoErr
  detail,    \* the identifier the error names, if any
  xml,       \* the markup above the root's children: << >> or << first node >>
  options,   \* options_: whether recursive_node_search is set
  root       \* the path of the root parse() found, if any

vars == << pc, phase, dest, nodes, document, idMap, queues, err, detail,
           xml, options, root >>

\* the parser's state as a record, and its assignment to the next state
Self == Parser(document, idMap, queues, err, detail)

Becomes(P) ==
  /\ document' = P.document
  /\ idMap' = P.idMap
  /\ queues' = P.queues
  /\ err' = P.err
  /\ detail' = P.detail

\* the constructor starting from an empty id map
ConstructEmptyIdMap(destDocument) ==
  Parser(destDocument, {}, EmptyQueues, NoErr, <<>>)

\* the constructor: idMap_(*destDocument)
Construct(destDocument) ==
  Parser(destDocument, IdsOf(destDocument), EmptyQueues, NoErr, <<>>)

\* a parser constructed on one of the target documents, with one of the
\* option settings, about to parse one of the documents
Start(documents, flags, seeds) ==
  /\ pc = "start"
  /\ phase = "locate"
  /\ nodes = <<>>
  /\ xml \in documents
  /\ options \in flags
  /\ root = Unset
  /\ dest \in seeds
  /\ document = Construct(dest).document
  /\ idMap = Construct(dest).idMap
  /\ queues = Construct(dest).queues
  /\ err = Construct(dest).err
  /\ detail = Construct(dest).detail

Init == Start(Documents, {FALSE}, Seeds)

\* parse() up to the loop: the document is empty, has no audioFormatExtended
\* root, or has one
ParseBegin ==
  /\ pc = "start"
  /\ IF xml = <<>>
     THEN /\ pc' = "error"
          /\ err' = "XmlParsingError(xml document is empty)"
          /\ root' = root
     ELSE /\ root' = findRoot(xml, options)
          /\ pc' = IF IsSet(findRoot(xml, options)) THEN "ingest" ELSE "error"
          /\ err' = IF IsSet(findRoot(xml, options)) THEN err
                    ELSE "XmlParsingError(audioFormatExtended node not found)"
  /\ UNCHANGED << phase, dest, nodes, document, idMap, queues, detail, xml, options >>

\* the nodes of a family within what the bounds leave
Family(family, nRefs, nPos) ==
  IF family = "RefNodes" THEN RefNodes(nRefs, nPos)
  ELSE IF family = "OffsetNodes" THEN OffsetNodes(nRefs, nPos)
  ELSE IF family = "PlainNodes" THEN PlainNodes(nRefs, nPos)
  ELSE IF family = "GainNodes" THEN GainNodes(nRefs, nPos)
  ELSE IF family = "FeaturedNodes" THEN FeaturedNodes(nRefs, nPos)
  ELSE IF family = "VariantNodes" THEN VariantNodes(nRefs, nPos)
  ELSE IF family = "TypedNodes" THEN TypedNodes(nRefs, nPos)
  ELSE IF family = "FrequencyNodes" THEN FrequencyNodes(nRefs, nPos)
  ELSE IF family = "DialogueNodes" THEN DialogueNodes(nRefs, nPos)
  ELSE SpeakerNodes(nRefs, nPos)

\* one pass of the loop: the next child of the root, drawn from the family
\* within what the bounds leave
ParseChild(family) ==
  /\ pc = "ingest"
  /\ Len(nodes) < MaxChildren
  /\ \E node \in Family(family, MaxRefs - CountChildren(nodes, RefNames),
                        MaxPos - CountChildren(nodes, PosNames)) :
       /\ nodes' = Append(nodes, node)
       /\ Becomes(parseChild(Self, node))
       /\ pc' = IF err' # NoErr THEN "error" ELSE "ingest"
  /\ phase' = "ingest"
  /\ UNCHANGED << dest, xml, options, root >>

\* the loop ends (no next sibling): the queues are resolved and parse() returns
ParseResolve ==
  /\ pc = "ingest"
  /\ Becomes(resolveAll(Self))
  /\ pc' = IF err' # NoErr THEN "error" ELSE "done"
  /\ phase' = "resolve"
  /\ UNCHANGED << dest, nodes, xml, options, root >>

\* documents of elements of every kind and their references
Next == ParseBegin \/ ParseChild("RefNodes") \/ ParseResolve

Spec == Init /\ [][Next]_vars

\* documents of audioObjects with position offsets
NextOffset == ParseBegin \/ ParseChild("OffsetNodes") \/ ParseResolve

SpecOffset == Init /\ [][NextOffset]_vars

\* documents of DirectSpeakers channel formats with speaker positions
NextSpeaker == ParseBegin \/ ParseChild("SpeakerNodes") \/ ParseResolve

SpecSpeaker == Init /\ [][NextSpeaker]_vars

\* documents of audioObjects with a gain
NextGain == ParseBegin \/ ParseChild("GainNodes") \/ ParseResolve

SpecGain == Init /\ [][NextGain]_vars

\* documents of audioContents with a dialogue
NextDialogue == ParseBegin \/ ParseChild("DialogueNodes") \/ ParseResolve

SpecDialogue == Init /\ [][NextDialogue]_vars

\* documents of audioChannelFormats with frequencies
NextFrequency == ParseBegin \/ ParseChild("FrequencyNodes") \/ ParseResolve

SpecFrequency == Init /\ [][NextFrequency]_vars

\* documents of audioPackFormats and audioChannelFormats with type attributes
NextTyped == ParseBegin \/ ParseChild("TypedNodes") \/ ParseResolve

SpecTyped == Init /\ [][NextTyped]_vars

\* documents of every kind parsed into a target document that holds elements
InitSeeded == Start({ <<EbuCoreMain>> }, {FALSE}, SeededDocuments)

SpecSeeded == InitSeeded /\ [][Next]_vars

\* documents of elements of every kind with their parameters
NextFeatured == ParseBegin \/ ParseChild("FeaturedNodes") \/ ParseResolve

SpecFeatured == Init /\ [][NextFeatured]_vars

\* documents of one element with the parameters that select a variant or
\* a field, and a childless one after it
NextVariants ==
  \/ ParseBegin
  \/ nodes = <<>> /\ ParseChild("VariantNodes")
  \/ Len(nodes) = 1 /\ ParseChild("PlainNodes")
  \/ ParseResolve

SpecVariants == Init /\ [][NextVariants]_vars

\* documents of every shape above the root, under both option settings
InitRoot == Start(TreeDocuments, BOOLEAN, Seeds)

NextRoot == ParseBegin \/ ParseChild("PlainNodes") \/ ParseResolve

SpecRoot == InitRoot /\ [][NextRoot]_vars

(***************************************************************************)
(* Vocabulary of the properties.                                           *)
(***************************************************************************)
Range(s) == { s[i] : i \in 1..Len(s) }

Last(s) == s[Len(s)]

\* the sequence s with x put in after its k-th member
Insert(s, k, x) == SubSeq(s, 1, k) \o <<x>> \o SubSeq(s, k + 1, Len(s))

\* the orderings of the members of s
Orderings(s) ==
  { [i \in 1..Len(s) |-> s[p[i]]] : p \in Permutations(1..Len(s)) }

\* the element of that identifier in a document
ElementOf(doc, id) == doc[CHOOSE i \in 1..Len(doc) : doc[i].id = id]

\* the root's children of a known element name
IsElement(node) == node.name \in ElementKinds

\* the targets a node's reference children of role r name, in document order
RefTargets(node, r) ==
  LET cs == findElements(node, Roles[r].ref)
  IN  [i \in 1..Len(cs) |-> RefId(r, cs[i])]

\* the targets queued under role r for the source src, in queue order
QueuedTargets(q, r, src) ==
  LET mine == SelectSeq(q[r], LAMBDA e : e.src = src)
  IN  [i \in 1..Len(mine) |-> mine[i].target]

\* the targets queued in any role
AllTargets(q) == UNION { { q[r][i].target : i \in 1..Len(q[r]) } : r \in RoleNames }

\* the loop has visited every child without a throw
Ingested == phase = "resolve"

Terminated == pc \in {"done", "error"}

\* the single-valued roles, by the kinds of their source and their target
SingleValuedKinds ==
  { <<"audioTrackUID", "audioTrackFormat">>,
    <<"audioTrackUID", "audioChannelFormat">>,
    <<"audioTrackUID", "audioPackFormat">>,
    <<"audioTrackFormat", "audioStreamFormat">>,
    <<"audioStreamFormat", "audioChannelFormat">>,
    <<"audioStreamFormat", "audioPackFormat">> }

IsSingleValued(r) == <<Roles[r].src, Roles[r].tgt>> \in SingleValuedKinds

\* no element of the document holds a relation
NoRelation(doc) ==
  \A i \in 1..Len(doc) : \A r \in DOMAIN doc[i].rel : doc[i].rel[r] = <<>>

(***************************************************************************)
(* C1.  Duplicate identifiers.                                             *)
(***************************************************************************)
\* children i < j of the same kind carrying the same identifier
SameElement(i, j) ==
  /\ i < j
  /\ IsElement(nodes[i])
  /\ nodes[i].name = nodes[j].name
  /\ NodeId(nodes[i]) = NodeId(nodes[j])

\* C1 as claimed: whenever two visited children are of the same kind and
\* carry the same identifier, parse() has failed with XmlParsingDuplicateId
\* (a child after a failing one is never visited, so no earlier child failed).
C1_DuplicateAlwaysReported ==
  \A i, j \in 1..Len(nodes) :
    SameElement(i, j) => pc = "error" /\ err = "XmlParsingDuplicateId"

\* C1 amended: whenever two visited children are of the same kind and carry
\* the same identifier, and the later one has its required name attribute,
\* parse() has failed with XmlParsingDuplicateId naming that identifier,
\* whatever stands before, between or after the two.
C1_DuplicateReported ==
  \A i, j \in 1..Len(nodes) :
    SameElement(i, j) /\ (nodes[j].name \in NamedKinds => nodes[j].nameAttr)
      => /\ pc = "error"
         /\ phase = "ingest"
         /\ err = "XmlParsingDuplicateId"
         /\ detail = << NodeId(nodes[j]) >>

\* a duplicate at the first and the third child, another element between
C1_Witness ==
  /\ Len(nodes) = 3
  /\ SameElement(1, 3)
  /\ IsElement(nodes[2])
  /\ nodes[2].name # nodes[1].name
  /\ err = "XmlParsingDuplicateId"

(***************************************************************************)
(* C2.  Dangling references.                                               *)
(***************************************************************************)
\* the identifiers that pending references name and no element carries
Dangling(P) == AllTargets(P.queues) \ P.idMap

\* the visited Objects that reference the PackFormat p
ReferrersOf(p) ==
  { i \in 1..Len(nodes) :
      /\ nodes[i].name = "audioObject"
      /\ p \in Range(RefTargets(nodes[i], "objectPackFormatRefs_")) }

\* the PackFormat identifiers visited Objects reference and nothing defines
DanglingPackFormats ==
  { p \in Dangling(Self) : p.kind = "audioPackFormat" /\ ReferrersOf(p) # {} }

\* a PackFormat element of identifier p, with nothing in it
PackFormatNode(p) == Node("audioPackFormat", TRUE, p.td, p.value, <<>>)

\* C2: once the loop has visited every child, a reference from an Object to
\* a PackFormat that no element of the document carries makes parse() fail,
\* in resolution, with DanglingReferenceError; and when that PackFormat is
\* all that is missing, the same children with the PackFormat put in at any
\* position parse without error and every referring Object holds it.
C2_DanglingPackFormat ==
  Ingested /\ DanglingPackFormats # {} =>
    /\ pc = "error"
    /\ err = "DanglingReferenceError"
    /\ detail \in { <<t>> : t \in Dangling(Self) }
    /\ \A p \in DanglingPackFormats :
         Dangling(Self) = {p} =>
           \A k \in 0..Len(nodes) :
             LET R == parseRoot(Construct(dest), Insert(nodes, k, PackFormatNode(p)))
             IN  /\ R.err = NoErr
                 /\ \A i \in ReferrersOf(p) :
                      p \in Range(ElementOf(R.document, NodeId(nodes[i])).rel["objectPackFormatRefs_"])

\* an Object referencing a missing PackFormat between two other elements,
\* the PackFormat being all that is missing
C2_Witness ==
  /\ Ingested
  /\ Len(nodes) = 3
  /\ \E p \in DanglingPackFormats : Dangling(Self) = {p} /\ ReferrersOf(p) = {2}
  /\ IsElement(nodes[1]) /\ IsElement(nodes[3])
  /\ err = "DanglingReferenceError"

(***************************************************************************)
(* C3.  Forward references.                                                *)
(***************************************************************************)
\* the visited Contents that reference an Object
ContentsWithObjects ==
  { i \in 1..Len(nodes) :
      /\ nodes[i].name = "audioContent"
      /\ RefTargets(nodes[i], "contentObjectRefs_") # <<>> }

\* the elements of a document with their relations
Graph(doc) == Range(doc)

\* C3: when a document holding a Content that references Objects has parsed
\* without error, its children in every other order parse without error to
\* the same elements and relations; each Content holds the Objects it names.
C3_OrderIndependent ==
  pc = "done" /\ ContentsWithObjects # {} =>
    /\ \A i \in ContentsWithObjects :
         ElementOf(document, NodeId(nodes[i])).rel["contentObjectRefs_"]
           = RefTargets(nodes[i], "contentObjectRefs_")
    /\ \A ns \in Orderings(nodes) :
         LET R == parseRoot(Construct(dest), ns)
         IN  R.err = NoErr /\ Graph(R.document) = Graph(document)

\* a Content standing before the two Objects it references
C3_Witness ==
  /\ pc = "done"
  /\ Len(nodes) = 3
  /\ ContentsWithObjects = {1}
  /\ nodes[2].name = "audioObject" /\ nodes[3].name = "audioObject"
  /\ Len(ElementOf(document, NodeId(nodes[1])).rel["contentObjectRefs_"]) = 2

(***************************************************************************)
(* C4.  Cyclic references.                                                 *)
(***************************************************************************)
\* visited Objects i, j that reference each other as complementary Objects
Complementary(i, j) ==
  /\ i # j
  /\ nodes[i].name = "audioObject" /\ nodes[j].name = "audioObject"
  /\ NodeId(nodes[j]) \in Range(RefTargets(nodes[i], "objectObjectRefs_"))
  /\ NodeId(nodes[i]) \in Range(RefTargets(nodes[j], "objectObjectRefs_"))

C5_NoPartialGraph == pc = "error" => document = dest

(***************************************************************************)
(* C6.  Two phases.                                                        *)
(***************************************************************************)
\* the visited children that became elements
Parsed(i) ==
  /\ i \in 1..Len(nodes)
  /\ IsElement(nodes[i])
  /\ i < Len(nodes) \/ pc # "error" \/ Ingested

\* every reference child of every parsed child is pending in its role's queue
AllEnqueued ==
  \A i \in 1..Len(nodes) :
    Parsed(i) =>
      \A r \in RolesOf(nodes[i].name) :
        QueuedTargets(queues, r, NodeId(nodes[i])) = RefTargets(nodes[i], r)

\* every pending reference of every queue is held by its source
AllResolved ==
  \A r \in RoleNames :
    \A k \in 1..Len(queues[r]) :
      LET held == ElementOf(document, queues[r][k].src).rel[r]
      IN  IF ~IsSingleValued(r)
          THEN queues[r][k].target \in Range(held)
          ELSE held = Some(Last(QueuedTargets(queues, r, queues[r][k].src)))

TwoPhaseState ==
  /\ ~Ingested => NoRelation(document)
  /\ AllEnqueued
  /\ pc = "done" => Ingested /\ AllResolved

TwoPhaseStep ==
  /\ document' # document /\ ~NoRelation(document') => Ingested' /\ nodes' = nodes
  /\ Ingested => nodes' = nodes /\ queues' = queues /\ idMap' = idMap

\* C6: while the children are being visited every reference is only made
\* pending and no element holds a relation; relations are attached only
\* after the last child was visited, when no child is visited and nothing is
\* made pending any more; when parse() returns without error every pending
\* reference of the fourteen queues is held by its source.
C6_TwoPhase == []TwoPhaseState /\ [][TwoPhaseStep]_vars

\* a document whose references were all pending before any was attached
C6_Witness ==
  /\ pc = "done"
  /\ Len(nodes) = 3
  /\ \E r1, r2 \in RoleNames : r1 # r2 /\ queues[r1] # <<>> /\ queues[r2] # <<>>

(***************************************************************************)
(* C7.  Single-valued and multi-valued roles.                              *)
(***************************************************************************)
\* the relation an element ends with, given the targets its node names
Attached(r, targets) ==
  IF ~IsSingleValued(r) \/ targets = <<>> THEN targets ELSE Some(Last(targets))

\* C7: when parse() returns without error, every element holds, in each
\* multi-valued role, the targets of its reference children in document
\* order, and in each single-valued role the target of the last one only.
C7_Cardinality ==
  pc = "done" =>
    \A i \in 1..Len(nodes) :
      IsElement(nodes[i]) =>
        \A r \in RolesOf(nodes[i].name) :
          ElementOf(document, NodeId(nodes[i])).rel[r]
            = Attached(r, RefTargets(nodes[i], r))

\* an element holding two targets in other than identifier order
C7_Witness ==
  /\ pc = "done"
  /\ \E i \in 1..Len(document) : \E r \in DOMAIN document[i].rel :
       /\ ~IsSingleValued(r)
       /\ Len(document[i].rel[r]) = 2
       /\ document[i].rel[r][1].value > document[i].rel[r][2].value

\* a single-valued role of two reference children
C7_WitnessOverwrite ==
  /\ pc = "done"
  /\ \E i \in 1..Len(nodes) : \E r \in RolesOf(nodes[i].name) :
       /\ IsSingleValued(r)
       /\ Len(RefTargets(nodes[i], r)) = 2
       /\ RefTargets(nodes[i], r)[1] # RefTargets(nodes[i], r)[2]

(***************************************************************************)
(* C8.  Speaker positions.                                                 *)
(***************************************************************************)
\* the coordinate markers of position children
MarkersOf(ps) == { ps[k].coordinate : k \in 1..Len(ps) }

Mixed(ps) ==
  /\ MarkersOf(ps) \cap CartesianAxes # {}
  /\ MarkersOf(ps) \cap SphericalAxes # {}

\* the field of an axis a bound marker selects
FieldOf(bound) == IF bound = NoAttr THEN "value" ELSE bound

\* every child's bound marker is absent, min or max
BoundsValid(ps) == \A k \in 1..Len(ps) : ps[k].bound \in BoundValues \cup {NoAttr}

\* in the position, the fields of the markers present are set, to the text
\* of the last child naming them, and no other field is
OnlyMarkedSet(position, ps, axes) ==
  /\ DOMAIN position.coord = axes
  /\ \A a \in axes : \A f \in {"value", "min", "max"} :
       LET naming == SelectSeq(ps, LAMBDA c : c.coordinate = a /\ FieldOf(c.bound) = f)
       IN  position.coord[a][f] = IF naming = <<>> THEN Unset ELSE Some(Last(naming).text)

\* what the claim says of parseSpeakerPosition on the position children ps,
\* for the children that satisfy valid
SpeakerPositionRule(ps, valid(_)) ==
  LET R == parseSpeakerPosition(ps)
  IN  /\ Mixed(ps) => Threw(R)
      /\ Mixed(ps) /\ MarkersOf(ps) \subseteq CartesianAxes \cup SphericalAxes
           => R.err = "XmlParsingError(SpeakerPosition has both cartesian and spherical coordinates)"
      /\ ps = <<>>
           => R.err = "XmlParsingError(SpeakerPosition has neither cartesian nor spherical coordinates)"
      /\ ps # <<>> /\ MarkersOf(ps) \subseteq CartesianAxes /\ valid(ps)
           => /\ ~Threw(R)
              /\ R.value.shape = "cartesian"
              /\ OnlyMarkedSet(R.value, ps, CartesianAxes)
      /\ ps # <<>> /\ MarkersOf(ps) \subseteq SphericalAxes /\ valid(ps)
           => /\ ~Threw(R)
              /\ R.value.shape = "spherical"
              /\ OnlyMarkedSet(R.value, ps, SphericalAxes)

\* a visited child with an identifier no earlier child carries
FirstOfItsId(i) == \A j \in 1..(i - 1) : NodeId(nodes[j]) # NodeId(nodes[i])

\* the visited DirectSpeakers channel formats of one block that get as far
\* as its position, each with that block
SpeakerBlocksVisited ==
  { <<i, nodes[i].children[1]>> :
      i \in { k \in 1..Len(nodes) :
                /\ nodes[k].name = "audioChannelFormat"
                /\ nodes[k].td = "DirectSpeakers"
                /\ nodes[k].nameAttr
                /\ Len(nodes[k].children) = 1
                /\ nodes[k].children[1].name = "audioBlockFormat"
                /\ FirstOfItsId(k) } }

\* the channel format of a visited block ends as parseSpeakerPosition says
SpeakerPositionApplied(i, b) ==
  LET R == parseSpeakerPosition(findElements(b, "position"))
  IN  IF Threw(R)
      THEN ~Parsed(i) /\ err = R.err
      ELSE /\ Parsed(i)
           /\ ElementOf(document, NodeId(nodes[i])).blocks
                = << BlockFormat("DirectSpeakers", FALSE, R.value) >>

AnyBound(ps) == TRUE

\* C8 as claimed: the position children of a DirectSpeakers block fail to
\* parse when they mix cartesian and spherical markers and when there are
\* none, and otherwise parse to a cartesian position if all markers are in
\* {X,Y,Z}, to a spherical one if all are in {azimuth,elevation,distance},
\* with only the fields of the markers present set.
C8_SpeakerPositionAnyBound ==
  \A v \in SpeakerBlocksVisited :
    /\ SpeakerPositionRule(findElements(v[2], "position"), AnyBound)
    /\ SpeakerPositionApplied(v[1], v[2])

\* C8 amended: as claimed, the success of the all-cartesian and of the
\* all-spherical group being that of groups in which every child's bound
\* marker is absent, min or max; the field a child sets is the base value,
\* the minimum or the maximum of its axis according to that marker.
C8_SpeakerPosition ==
  \A v \in SpeakerBlocksVisited :
    /\ SpeakerPositionRule(findElements(v[2], "position"), BoundsValid)
    /\ SpeakerPositionApplied(v[1], v[2])

\* a channel format parsed to a cartesian position with X and the
\* minimum of Y set
C8_Witness ==
  \E v \in SpeakerBlocksVisited :
    LET ps == findElements(v[2], "position")
    IN  /\ Len(ps) = 2
        /\ ps[1].coordinate = "X" /\ ps[1].bound = NoAttr
        /\ ps[2].coordinate = "Y" /\ ps[2].bound = "min"
        /\ Parsed(v[1])
        /\ LET position == ElementOf(document, NodeId(nodes[v[1]])).blocks[1].position
           IN  /\ position.shape = "cartesian"
               /\ IsSet(position.coord["X"].value)
               /\ IsSet(position.coord["Y"].min)
               /\ ~IsSet(position.coord["Z"].value)

(***************************************************************************)
(* C9.  Coordinate shape of a positionOffset group.                        *)
(***************************************************************************)
\* the visited Objects with positionOffset children that get as far as them
OffsetGroupsVisited ==
  { i \in 1..Len(nodes) :
      /\ nodes[i].name = "audioObject"
      /\ nodes[i].nameAttr
      /\ FirstOfItsId(i)
      /\ findElements(nodes[i], "positionOffset") # <<>> }

\* C9: the marker of the first positionOffset child of an Object decides
\* the shape of all of them: after a first marker in {X,Y,Z} every child is
\* read as a cartesian axis, the Object parses exactly when every marker is
\* one and then holds a cartesian offset and no spherical one; likewise for
\* a first marker in {azimuth,elevation,distance}; a first marker of any
\* other value makes the parse fail with InvalidCoordinateError.
C9_ShapeByFirstMarker ==
  \A i \in OffsetGroupsVisited :
    LET cs == findElements(nodes[i], "positionOffset")
        first == cs[1].coordinate
        object == ElementOf(document, NodeId(nodes[i]))
    IN  /\ first \in CartesianAxes =>
             /\ Parsed(i) <=> MarkersOf(cs) \subseteq CartesianAxes
             /\ Parsed(i) => /\ IsSet(object.cartesianPositionOffset)
                             /\ ~IsSet(object.sphericalPositionOffset)
             /\ ~Parsed(i) => err \in {"InvalidCoordinateError", "MissingAttributeError"}
        /\ first \in SphericalAxes =>
             /\ Parsed(i) <=> MarkersOf(cs) \subseteq SphericalAxes
             /\ Parsed(i) => /\ IsSet(object.sphericalPositionOffset)
                             /\ ~IsSet(object.cartesianPositionOffset)
             /\ ~Parsed(i) => err \in {"InvalidCoordinateError", "MissingAttributeError"}
        /\ first \notin CartesianAxes \cup SphericalAxes \cup {NoAttr} =>
             ~Parsed(i) /\ err = "InvalidCoordinateError"

\* an Object whose offsets are marked Y then X, parsed to a cartesian offset
C9_Witness ==
  \E i \in OffsetGroupsVisited :
    LET cs == findElements(nodes[i], "positionOffset")
    IN  /\ Len(cs) = 2
        /\ cs[1].coordinate = "Y" /\ cs[2].coordinate = "X"
        /\ Parsed(i)
        /\ IsSet(ElementOf(document, NodeId(nodes[i])).cartesianPositionOffset)

(***************************************************************************)
(* C10.  Position offsets of an Object.                                    *)
(***************************************************************************)
\* in the offset, the axes that occur as markers are set, to the text of
\* the last child naming them, and no other axis is
OnlyMarkedAxes(offset, cs, axes) ==
  /\ DOMAIN offset = axes
  /\ \A a \in axes :
       LET naming == SelectSeq(cs, LAMBDA c : c.coordinate = a)
       IN  offset[a] = IF naming = <<>> THEN Unset ELSE Some(Last(naming).text)

\* C10: when parse() returns without error, no Object holds both a
\* spherical and a cartesian position offset; an Object with positionOffset
\* children holds exactly one of the two, in which the axes that occur as
\* markers are set and the others are not; an Object without such a child
\* holds neither.
C10_OffsetExclusive ==
  pc = "done" =>
    \A i \in 1..Len(nodes) :
      nodes[i].name = "audioObject" =>
        LET cs == findElements(nodes[i], "positionOffset")
            object == ElementOf(document, NodeId(nodes[i]))
            spherical == object.sphericalPositionOffset
            cartesian == object.cartesianPositionOffset
        IN  /\ ~(IsSet(spherical) /\ IsSet(cartesian))
            /\ cs = <<>> => ~IsSet(spherical) /\ ~IsSet(cartesian)
            /\ cs # <<>> =>
                 /\ IsSet(spherical) # IsSet(cartesian)
                 /\ IsSet(spherical) => OnlyMarkedAxes(spherical[1], cs, SphericalAxes)
                 /\ IsSet(cartesian) => OnlyMarkedAxes(cartesian[1], cs, CartesianAxes)

\* an Object with a cartesian offset of Y only, one without any offset
C10_Witness ==
  /\ pc = "done"
  /\ \E i, j \in 1..Len(nodes) :
       /\ MarkersOf(findElements(nodes[i], "positionOffset")) = {"Y"}
       /\ IsSet(ElementOf(document, NodeId(nodes[i])).cartesianPositionOffset)
       /\ findElements(nodes[j], "positionOffset") = <<>>

(***************************************************************************)
(* Root location (C14, C15).                                               *)
(***************************************************************************)
RECURSIVE NodeAt(_, _)
NodeAt(tree, path) ==
  IF path = <<>> THEN tree ELSE NodeAt(tree.children[Head(path)], Tail(path))

RECURSIVE AllPaths(_)
AllPaths(tree) ==
  {<<>>} \cup UNION { { <<k>> \o p : p \in AllPaths(tree.children[k]) } :
                        k \in 1..Len(tree.children) }

\* the names met from the top node down to the node at the path
NamesAlong(tree, path) ==
  [i \in 1..(Len(path) + 1) |-> NodeAt(tree, SubSeq(path, 1, i - 1)).name]

CandidatePaths(tree) ==
  { p \in AllPaths(tree) : NodeAt(tree, p).name = "audioFormatExtended" }

EbuCorePath == << "ebuCoreMain", "coreMetadata", "format", "audioFormatExtended" >>

\* the node at the path is reached by the exact path of names, and at each
\* of the three lower levels it is the only node of the expected name
OnlyOfItsNameAtEachLevel(tree, path) ==
  /\ NamesAlong(tree, path) = EbuCorePath
  /\ \A i \in 1..3 :
       LET siblings == NodeAt(tree, SubSeq(path, 1, i - 1)).children
       IN  Cardinality({ k \in 1..Len(siblings) :
                           siblings[k].name = EbuCorePath[i + 1] }) = 1

\* p comes before q in depth-first pre-order
Precedes(p, q) ==
  /\ p # q
  /\ \/ /\ Len(p) < Len(q)
        /\ SubSeq(q, 1, Len(p)) = p
     \/ \E i \in 1..Len(p) :
          /\ i <= Len(q)
          /\ SubSeq(p, 1, i - 1) = SubSeq(q, 1, i - 1)
          /\ p[i] < q[i]

Located == pc # "start" /\ xml # <<>>

NothingIngested == pc = "error" /\ nodes = <<>> /\ document = dest

RootNotFound ==
  err = "XmlParsingError(audioFormatExtended node not found)" /\ NothingIngested

C15_WitnessStrict ==
  /\ pc = "done"
  /\ ~options
  /\ IsSet(root)
  /\ Cardinality(CandidatePaths(xml[1])) > 1
  /\ Len(document) > 1

(***************************************************************************)
(* Gain (C11).                                                             *)
(***************************************************************************)
\* the visited audioObjects that get as far as their gain child, each with
\* that child
GainsVisited ==
  { <<i, findElements(nodes[i], "gain")[1]>> :
      i \in { k \in 1..Len(nodes) :
                /\ nodes[k].name = "audioObject"
                /\ findElements(nodes[k], "gain") # <<>>
                /\ FirstOfItsId(k) } }

\* the texts that begin with a number, and that number
LeadingNumber == [t \in {"1", "2", "1x"} |-> IF t = "2" THEN 2 ELSE 1]

Numeric(text) == text \in DOMAIN LeadingNumber

\* the Object of the i-th child holds that gain
HoldsGain(i, unit, value) ==
  /\ \E k \in 1..Len(document) : document[k].id = NodeId(nodes[i])
  /\ ElementOf(document, NodeId(nodes[i])).gain = << [unit |-> unit, value |-> value] >>

\* the parse failed at the i-th child with that error and made no element
\* of it
FailedAt(i, e) ==
  /\ i = Len(nodes)
  /\ pc = "error"
  /\ err = e
  /\ \A k \in 1..Len(document) : document[k].id # NodeId(nodes[i])

\* the rule of the gain unit for the gain children selected by covered
GainRule(covered) ==
  \A g \in GainsVisited :
    covered[g[2].value] =>
      IF g[2].gainUnit \in {NoAttr, "linear"}
      THEN Numeric(g[2].value) /\ HoldsGain(g[1], "linear", LeadingNumber[g[2].value])
      ELSE IF g[2].gainUnit = "dB"
      THEN Numeric(g[2].value) /\ HoldsGain(g[1], "dB", LeadingNumber[g[2].value])
      ELSE FailedAt(g[1], "XmlParsingUnexpectedAttrError")

\* C11 as stated: a gain element without gainUnit or with gainUnit linear
\* yields a linear gain of its value, one with gainUnit dB a decibel gain,
\* and any other gainUnit makes the parse fail with the unexpected-unit
\* error, no gain being produced, whatever the text of the element.
C11_GainUnitAnyText == GainRule([t \in GainTexts |-> TRUE])

\* C11, amended: the same for every gain element whose text begins with a
\* number, the gain being of that number.
C11_GainUnit == GainRule([t \in GainTexts |-> Numeric(t)])

\* a decibel gain, then a gain of an unknown unit
C11_Witness ==
  /\ Len(nodes) = 2
  /\ \E g, h \in GainsVisited :
       /\ g[1] = 1 /\ g[2].gainUnit = "dB" /\ HoldsGain(1, "dB", 2)
       /\ h[1] = 2 /\ h[2].gainUnit = "db" /\ Numeric(h[2].value)
       /\ FailedAt(2, "XmlParsingUnexpectedAttrError")

\* a gain of an unknown unit whose text is no number
C11_WitnessText ==
  \E g \in GainsVisited :
    /\ g[2].gainUnit = "db"
    /\ ~Numeric(g[2].value)
    /\ FailedAt(g[1], "std::invalid_argument")

(***************************************************************************)
(* Content kind (C12).                                                     *)
(***************************************************************************)
\* the visited audioContents that get as far as their dialogue child, each
\* with that child
DialoguesVisited ==
  { <<i, findElements(nodes[i], "dialogue")[1]>> :
      i \in { k \in 1..Len(nodes) :
                /\ nodes[k].name = "audioContent"
                /\ findElements(nodes[k], "dialogue") # <<>>
                /\ FirstOfItsId(k) } }

\* the discriminators and the companion attribute and kind of each
Companions ==
  [n \in {0, 1, 2} |->
     IF n = 0 THEN [attr |-> "nonDialogueContentKind", kind |-> "NonDialogueContentKind"]
     ELSE IF n = 1 THEN [attr |-> "dialogueContentKind", kind |-> "DialogueContentKind"]
     ELSE [attr |-> "mixedContentKind", kind |-> "MixedContentKind"]]

\* the discriminator written as text, and the number a text begins with
Written == [t \in {"0", "1", "2", "3"} |->
              IF t = "0" THEN 0 ELSE IF t = "1" THEN 1 ELSE IF t = "2" THEN 2 ELSE 3]
Begins == [t \in {"0", "1", "2", "3", "1x"} |-> IF t = "1x" THEN 1 ELSE Written[t]]

\* the Content of the i-th child holds that content kind
HoldsContentKind(i, kind, value) ==
  /\ \E k \in 1..Len(document) : document[k].id = NodeId(nodes[i])
  /\ ElementOf(document, NodeId(nodes[i])).dialogue = << [kind |-> kind, value |-> value] >>

\* the rule of the discriminator n for the dialogue child d of the i-th child
ContentKindRule(i, d, n) ==
  IF n \in DOMAIN Companions
  THEN IF d[Companions[n].attr] # NoAttr
       THEN HoldsContentKind(i, Companions[n].kind, d[Companions[n].attr])
       ELSE FailedAt(i, "MissingAttributeError")
  ELSE FailedAt(i, "XmlParsingError(unknown dialogue id)")

\* C12 as stated: the discriminator being the text of the dialogue element,
\* 0, 1 and 2 require and read only their own companion attribute and yield
\* the content kind of the matching kind, a missing companion fails whatever
\* other companions are present, and every other discriminator fails with
\* the unknown-dialogue-kind error.
C12_ContentKindAnyText ==
  \A g \in DialoguesVisited :
    ContentKindRule(g[1], g[2],
                    IF g[2].value \in DOMAIN Written THEN Written[g[2].value] ELSE 3)

\* C12, amended: the same for every dialogue element whose text begins with
\* a number, the discriminator being that number.
C12_ContentKind ==
  \A g \in DialoguesVisited :
    g[2].value \in DOMAIN Begins => ContentKindRule(g[1], g[2], Begins[g[2].value])

\* a mixed content kind read with the other companions present, then a
\* dialogue content kind failing on its missing companion with the two
\* others present
C12_Witness ==
  /\ Len(nodes) = 2
  /\ \E g, h \in DialoguesVisited :
       /\ g[1] = 1 /\ g[2].value = "2" /\ g[2].nonDialogueContentKind # NoAttr
       /\ g[2].dialogueContentKind # NoAttr
       /\ HoldsContentKind(1, "MixedContentKind", "3")
       /\ h[1] = 2 /\ h[2].value = "1" /\ h[2].dialogueContentKind = NoAttr
       /\ h[2].nonDialogueContentKind # NoAttr /\ h[2].mixedContentKind # NoAttr
       /\ FailedAt(2, "MissingAttributeError")

\* a discriminator outside 0..2
C12_WitnessUnknown ==
  \E g \in DialoguesVisited :
    g[2].value = "3" /\ FailedAt(g[1], "XmlParsingError(unknown dialogue id)")

(***************************************************************************)
(* Frequency (C13).                                                        *)
(***************************************************************************)
\* the visited audioChannelFormats that get as far as their frequency
\* children, all of which have a type marker
FrequenciesVisited ==
  { i \in 1..Len(nodes) :
      /\ nodes[i].name = "audioChannelFormat"
      /\ FirstOfItsId(i)
      /\ \A k \in 1..Len(nodes[i].children) :
           nodes[i].children[k].typeDefinition # NoAttr }

\* the value of the last child of cs with that marker, if there is one
LastMarked(cs, marker) ==
  LET marked == { k \in 1..Len(cs) : cs[k].typeDefinition = marker }
  IN  IF marked = {} THEN Unset
      ELSE Some(cs[CHOOSE k \in marked : \A j \in marked : j <= k].text)

\* C13: a frequency child marked lowPass sets the low-pass field, one
\* marked highpass the high-pass field, and a child of any other marker,
\* highPass and lowpass included, raises no error and leaves both fields as
\* they were: the channel format is made, and each field holds the value of
\* the last child of its marker or nothing.
C13_FrequencyBand ==
  \A i \in FrequenciesVisited :
    LET cs == findElements(nodes[i], "frequency")
    IN  /\ \E k \in 1..Len(document) : document[k].id = NodeId(nodes[i])
        /\ ElementOf(document, NodeId(nodes[i])).frequency =
             [lowPass |-> LastMarked(cs, "lowPass"),
              highPass |-> LastMarked(cs, "highpass")]

\* a low-pass frequency followed by one marked highPass, which is ignored
C13_Witness ==
  /\ pc = "done"
  /\ \E i \in FrequenciesVisited :
       LET cs == findElements(nodes[i], "frequency")
       IN  /\ Len(cs) = 2
           /\ cs[1].typeDefinition = "lowPass"
           /\ cs[2].typeDefinition = "highPass"
           /\ ElementOf(document, NodeId(nodes[i])).frequency =
                [lowPass |-> Some(cs[1].text), highPass |-> Unset]

(***************************************************************************)
(* Dispatch of the root's children (C16).                                  *)
(***************************************************************************)
\* the children of a known element name among those visited, in order
ElementNodes == SelectSeq(nodes, IsElement)

\* what the parser holds is what it would hold had the children of other
\* names not been there; while no error occurred the elements made are, in
\* document order, one for each child of a known name, of the kind of that
\* name and with its identifier
DispatchState ==
  /\ IsSet(root) =>
       Self = IF Ingested THEN parseRoot(Construct(dest), ElementNodes)
              ELSE parseChildren(Construct(dest), ElementNodes)
  /\ pc \in {"ingest", "done"} =>
       /\ Len(document) = Len(dest) + Len(ElementNodes)
       /\ \A k \in 1..Len(ElementNodes) :
            /\ document[Len(dest) + k].id = NodeId(ElementNodes[k])
            /\ document[Len(dest) + k].id.kind = ElementNodes[k].name
            /\ DOMAIN document[Len(dest) + k].rel = RolesOf(ElementNodes[k].name)

\* the visit of a child of another name changes nothing but the list of
\* the children visited, and the loop goes on
IgnoredStep ==
  (nodes' # nodes /\ ~IsElement(Last(nodes'))) =>
    /\ UNCHANGED << document, idMap, queues, err, detail >>
    /\ pc' = "ingest"

\* C16: each child of the root is visited once, in document order, and
\* handed to the parse routine of its name; a child of any other name adds no
\* element, enqueues no reference, raises no error and does not change the
\* result for the other children.
C16_Dispatch == []DispatchState /\ [][IgnoredStep]_vars

\* a child of another name between two elements, the second referring to
\* the first
C16_Witness ==
  /\ pc = "done"
  /\ Len(nodes) = 3
  /\ ~IsElement(nodes[2])
  /\ Len(document) = 2
  /\ nodes[1].name # nodes[3].name
  /\ \E r \in RolesOf(nodes[3].name) : document[2].rel[r] = << NodeId(nodes[1]) >>

(***************************************************************************)
(* Type consistency (C17).                                                 *)
(***************************************************************************)
\* the visited pack and channel formats that get as far as the check
TypedVisited ==
  { i \in 1..Len(nodes) : nodes[i].name \in TypedKinds /\ nodes[i].nameAttr /\ FirstOfItsId(i) }

\* an explicit attribute disagrees with the descriptor of the identifier, or
\* the two disagree with each other
Disagree(node) ==
  \/ node.typeLabel # NoAttr /\ node.typeLabel # NodeId(node).td
  \/ node.typeDefinition # NoAttr /\ node.typeDefinition # NodeId(node).td
  \/ /\ node.typeLabel # NoAttr
     /\ node.typeDefinition # NoAttr
     /\ node.typeLabel # node.typeDefinition

\* C17: a PackFormat or ChannelFormat whose typeLabel or typeDefinition
\* disagrees with the type descriptor of its identifier, or whose typeLabel
\* and typeDefinition disagree with each other, fails with the
\* type-mismatch error and is not added; with both absent or all present
\* values agreeing the element is added.
C17_TypeConsistency ==
  \A i \in TypedVisited :
    IF Disagree(nodes[i]) THEN FailedAt(i, "TypeMismatchError")
    ELSE /\ i = Len(nodes) => err = NoErr
         /\ \E k \in 1..Len(document) : document[k].id = NodeId(nodes[i])

\* a channel format whose attributes agree, then a pack format whose
\* typeLabel and typeDefinition agree with each other but not with its
\* identifier
C17_Witness ==
  /\ Len(nodes) = 2
  /\ TypedVisited = {1, 2}
  /\ nodes[1].name = "audioChannelFormat" /\ nodes[1].typeLabel = nodes[1].td
  /\ nodes[1].typeDefinition = nodes[1].td
  /\ nodes[2].name = "audioPackFormat" /\ nodes[2].typeLabel = nodes[2].typeDefinition
  /\ nodes[2].typeLabel \notin {NoAttr, nodes[2].td}
  /\ FailedAt(2, "TypeMismatchError")
  /\ Len(document) = 1

(***************************************************************************)
(* Parsing into a target document that holds elements (C18).               *)
(***************************************************************************)
\* the visited children that get as far as the duplicate check and carry
\* the identifier of an element the target document held at construction
ClashingWithTarget ==
  { i \in 1..Len(nodes) :
      /\ IsElement(nodes[i])
      /\ nodes[i].name \in NamedKinds => nodes[i].nameAttr
      /\ NodeId(nodes[i]) \in IdsOf(dest) }

\* every reference child of every visited child names an element the target
\* document held at construction
OnlyTargetReferences ==
  \A i \in 1..Len(nodes) :
    IsElement(nodes[i]) =>
      \A r \in RolesOf(nodes[i].name) :
        \A k \in 1..Len(RefTargets(nodes[i], r)) :
          RefTargets(nodes[i], r)[k] \in IdsOf(dest)

\* C18 as stated: every child with the identifier of an element the target
\* document held when the parser was constructed fails with the
\* duplicate-identifier error.
C18_EveryClashReported ==
  \A i \in 1..Len(nodes) :
    (IsElement(nodes[i]) /\ NodeId(nodes[i]) \in IdsOf(dest)) =>
      (pc = "error" /\ err = "XmlParsingDuplicateId")

\* C18, amended: a child that has the name attribute its kind requires and
\* carries the identifier of an element the target document held when the
\* parser was constructed fails with the duplicate-identifier error naming
\* it, as such a child with the identifier of an earlier child does, and is
\* not added; references to elements the target held resolve:
\* resolution does not fail on them and each source holds them; the
\* elements the target held stay as they were.
C18_MergedIngestion ==
  /\ \A i \in ClashingWithTarget :
       /\ i = Len(nodes)
       /\ pc = "error"
       /\ err = "XmlParsingDuplicateId"
       /\ detail = << NodeId(nodes[i]) >>
       /\ \A k \in 1..Len(document) : document[k].id = NodeId(nodes[i]) => k <= Len(dest)
  /\ \A i, j \in 1..Len(nodes) :
       (i < j /\ IsElement(nodes[j]) /\ NodeId(nodes[i]) = NodeId(nodes[j])
          /\ (nodes[j].name \in NamedKinds => nodes[j].nameAttr)) =>
         (j = Len(nodes) /\ pc = "error" /\ err = "XmlParsingDuplicateId")
  /\ SubSeq(document, 1, Len(dest)) = dest
  /\ (Ingested /\ OnlyTargetReferences) =>
       /\ pc = "done"
       /\ \A i \in 1..Len(nodes) :
            IsElement(nodes[i]) =>
              \A r \in RolesOf(nodes[i].name) :
                ElementOf(document, NodeId(nodes[i])).rel[r]
                  = Attached(r, RefTargets(nodes[i], r))

\* a pack format referring to the channel format of the target document,
\* parsed and resolved
C18_Witness ==
  /\ pc = "done"
  /\ dest # <<>>
  /\ \E i \in 1..Len(nodes) :
       /\ nodes[i].name = "audioPackFormat"
       /\ ElementOf(document, NodeId(nodes[i])).rel["packFormatChannelFormatRefs_"]
            = << MakeId("audioChannelFormat", RefTd, 1) >>
       /\ MakeId("audioChannelFormat", RefTd, 1) \in IdsOf(dest)
       /\ \A j \in 1..Len(nodes) : nodes[j].name # "audioChannelFormat"

\* a channel format with the identifier of the one of the target document
C18_WitnessDuplicate ==
  /\ dest # <<>>
  /\ \E i \in ClashingWithTarget :
       /\ i > 1
       /\ nodes[i].name = "audioChannelFormat"
       /\ err = "XmlParsingDuplicateId"
       /\ Len(document) = Len(dest) + i - 1

(***************************************************************************)
(* Enumeration order (C19).                                                *)
(***************************************************************************)
\* the visited children of that kind, in document order
NodesOfKind(kind) == SelectSeq(nodes, LAMBDA n : n.name = kind)

\* C19: when parse() returns without error, the elements of each kind
\* listed by the target document are, after those it held before, the
\* elements of the root's children of that kind in the order of the
\* children, and each listed element is the only element of its identifier,
\* the one a lookup of that identifier finds.
C19_EnumerationOrder ==
  pc = "done" =>
    \A kind \in ElementKinds :
      LET listed == getElements(document, kind)
          before == Len(getElements(dest, kind))
      IN  /\ Len(listed) = before + Len(NodesOfKind(kind))
          /\ \A k \in 1..Len(NodesOfKind(kind)) :
               listed[before + k].id = NodeId(NodesOfKind(kind)[k])
          /\ \A k \in 1..Len(listed) :
               /\ IsSet(lookup(idMap, listed[k].id))
               /\ ElementOf(document, lookup(idMap, listed[k].id)[1]) = listed[k]
               /\ Cardinality({ j \in 1..Len(document) : document[j].id = listed[k].id }) = 1

\* two elements of one kind in other than identifier order, with an element
\* of another kind between them
C19_Witness ==
  /\ pc = "done"
  /\ Len(nodes) = 3
  /\ nodes[1].name = nodes[3].name
  /\ nodes[2].name # nodes[1].name
  /\ IsElement(nodes[1]) /\ IsElement(nodes[2])
  /\ nodes[1].id > nodes[3].id
  /\ Len(getElements(document, nodes[1].name)) = 2

(***************************************************************************)
(* Round trip (C20).                                                       *)
(***************************************************************************)
\* the parser after parsing, into an empty document, what the writer writes
\* for the document
Reparsed == parseRoot(Construct(<<>>), writeXml(document))

C20_WitnessReference ==
  /\ pc = "done"
  /\ Len(document) = 3
  /\ ~NoRelation(document)

\* a channel format with a block, an object with a position offset, a
\* content with a dialogue
C20_WitnessParameters ==
  /\ pc = "done"
  /\ \E i \in 1..Len(document) :
       \/ document[i].blocks # <<>> /\ IsSet(document[i].blocks[1].position.coord["X"].max)
       \/ IsSet(document[i].cartesianPositionOffset)
       \/ IsSet(document[i].dialogue)

(***************************************************************************)
(* The first error in document order (C21).  The children visited so far   *)
(* are a prefix of the root's children; what follows them in the document  *)
(* is tried by letting the loop run on over one more child.                *)
(***************************************************************************)
\* the error the node has when it is the only child of the root
Alone(n) == parseChild(Construct(<<>>), n).err

\* the i-th child carries the identifier of an earlier element
Clashes(i) ==
  /\ IsElement(nodes[i])
  /\ \E j \in 1..(i - 1) : IsElement(nodes[j]) /\ NodeId(nodes[j]) = NodeId(nodes[i])

\* the errors the i-th child fails validation with
ErrorsOf(i) ==
  ({Alone(nodes[i])} \ {NoErr})
    \cup (IF Clashes(i) THEN {"XmlParsingDuplicateId"} ELSE {})

\* children that fail validation wherever they stand after a first child:
\* one without its name, one of the first child's identifier, one whose
\* type label contradicts its identifier
LaterChildren ==
  { Node("audioObject", FALSE, NoAttr, 1, <<>>),
    [nodes[1] EXCEPT !.children = <<>>],
    [Node("audioPackFormat", TRUE, "Objects", 2, <<>>) EXCEPT !.typeLabel = "DirectSpeakers"] }

\* C21: while the loop runs no child visited fails validation; when the
\* loop has failed, the failing child is the last one visited, no child
\* before it fails validation, the one error held is one of that child's,
\* the document holds one element for each element child before it and
\* none for it, and whatever failing child follows in the document is
\* neither parsed nor added: the loop run over one more such child ends in
\* the same error and the same document.
C21_FirstError ==
  /\ pc = "ingest" => \A j \in 1..Len(nodes) : ErrorsOf(j) = {}
  /\ pc = "error" /\ phase = "ingest" =>
       /\ \A j \in 1..(Len(nodes) - 1) : ErrorsOf(j) = {}
       /\ err \in ErrorsOf(Len(nodes))
       /\ Len(document) = Cardinality({ j \in 1..(Len(nodes) - 1) : IsElement(nodes[j]) })
       /\ \A n \in LaterChildren :
            LET Q == parseChildren(Construct(dest), Append(nodes, n))
            IN  Q.err = err /\ Q.detail = detail /\ Q.document = document

\* a third child failing on its own value after two elements, where a
\* child of the first one's identifier would fail after it as well
C21_Witness ==
  /\ pc = "error" /\ phase = "ingest"
  /\ Len(nodes) = 3
  /\ err \notin {"XmlParsingDuplicateId", NoErr}
  /\ Len(document) = 2
  /\ \A n \in LaterChildren : Alone(n) # NoErr \/ NodeId(n) = NodeId(nodes[1])

\* a second child failing as a duplicate of the first
C21_WitnessDuplicate ==
  /\ pc = "error" /\ phase = "ingest"
  /\ Len(nodes) = 2
  /\ err = "XmlParsingDuplicateId"
  /\ Alone(nodes[2]) = NoErr

(***************************************************************************)
(* Which dangling reference is reported (C24).  A reference of the         *)
(* document is named by the place of its queue in the order of the         *)
(* queues, the place of its source among the root's children and its own   *)
(* place among the source's reference children of that queue.              *)
(***************************************************************************)
\* the queues in the order in which they are processed
QueueOrder ==
  << "programmeContentRefs_", "contentObjectRefs_", "objectObjectRefs_",
     "objectPackFormatRefs_", "objectTrackUidRefs_", "trackUidTrackFormatRef_",
     "trackUidChannelFormatRef_", "trackUidPackFormatRef_",
     "packFormatChannelFormatRefs_", "packFormatPackFormatRefs_",
     "trackFormatStreamFormatRef_", "streamFormatChannelFormatRef_",
     "streamFormatPackFormatRef_", "streamFormatTrackFormatRefs_" >>

\* the references of the children visited
References ==
  { e \in (1..Len(QueueOrder)) \X (1..Len(nodes)) \X (1..MaxRefs) :
      /\ nodes[e[2]].name = Roles[QueueOrder[e[1]]].src
      /\ e[3] <= Len(RefTargets(nodes[e[2]], QueueOrder[e[1]])) }

TargetOf(e) == RefTargets(nodes[e[2]], QueueOrder[e[1]])[e[3]]

\* queue-processing order: by queue, then by source, then by child
ProcessedBefore(e, f) ==
  \/ e[1] < f[1]
  \/ e[1] = f[1] /\ e[2] < f[2]
  \/ e[1] = f[1] /\ e[2] = f[2] /\ e[3] < f[3]

\* the references whose target is no element of the document
AbsentReferences ==
  { e \in References :
      TargetOf(e) \notin { NodeId(nodes[j]) : j \in { i \in 1..Len(nodes) : IsElement(nodes[i]) } }
                           \cup IdsOf(dest) }

FirstAbsent ==
  CHOOSE e \in AbsentReferences :
    \A f \in AbsentReferences : f = e \/ ProcessedBefore(e, f)

\* C24: when the ingestion pass has succeeded and some queued reference has
\* an absent target, parse() fails with DanglingReferenceError naming the
\* target of the first such reference in queue-processing order (the
\* queues in their fixed order, enqueue order within a queue), every
\* reference before it is attached to its source, and none after it is.
C24_FirstDangling ==
  Ingested /\ AbsentReferences # {} =>
    /\ pc = "error"
    /\ err = "DanglingReferenceError"
    /\ detail = << TargetOf(FirstAbsent) >>
    /\ \A p \in 1..Len(QueueOrder) : \A i \in 1..Len(nodes) :
         nodes[i].name = Roles[QueueOrder[p]].src =>
           LET r == QueueOrder[p]
               done == Cardinality({ e \in References :
                                       /\ e[1] = p /\ e[2] = i
                                       /\ ProcessedBefore(e, FirstAbsent) })
           IN  ElementOf(document, NodeId(nodes[i])).rel[r]
                 = Attached(r, SubSeq(RefTargets(nodes[i], r), 1, done))

\* two references with absent targets, the one of the later child being in
\* the earlier queue, and a resolved one
C24_Witness ==
  /\ Ingested
  /\ Cardinality(AbsentReferences) = 2
  /\ \E e \in AbsentReferences : e # FirstAbsent /\ e[2] < FirstAbsent[2]
                                    /\ TargetOf(e) # TargetOf(FirstAbsent)
  /\ err = "DanglingReferenceError"

\* two references of one queue with absent targets, and one resolved before
C24_WitnessOneQueue ==
  /\ Ingested
  /\ \E e \in AbsentReferences : e # FirstAbsent /\ e[1] = FirstAbsent[1]
                                    /\ TargetOf(e) # TargetOf(FirstAbsent)
  /\ err = "DanglingReferenceError"

(***************************************************************************)
(* Ingestion errors before resolution errors (C25).                        *)
(***************************************************************************)
\* the references with an absent target held by children before the last
AbsentBeforeLast == { e \in AbsentReferences : e[2] < Len(nodes) }

\* C25: a dangling-reference error is reported only when every child of the
\* root has been ingested and none of them fails ingestion; when a child
\* fails ingestion, also one that follows an element holding a reference
\* with an absent target, parse() reports that child's ingestion error and
\* no reference has been looked up or attached.
C25_IngestionFirst ==
  /\ err = "DanglingReferenceError" =>
       Ingested /\ \A j \in 1..Len(nodes) : ErrorsOf(j) = {}
  /\ pc = "error" /\ ~Ingested /\ IsSet(root) =>
       /\ err \in ErrorsOf(Len(nodes))
       /\ err # "DanglingReferenceError"
       /\ NoRelation(document)

\* a duplicate identifier after an element whose reference has no target
C25_Witness ==
  /\ pc = "error" /\ ~Ingested
  /\ err = "XmlParsingDuplicateId"
  /\ AbsentBeforeLast # {}
  /\ Len(nodes) = 3

\* a child without its name after an element whose reference has no target
C25_WitnessMissing ==
  /\ pc = "error" /\ ~Ingested
  /\ err = "MissingAttributeError"
  /\ AbsentBeforeLast # {}

(***************************************************************************)
(* Interaction ranges of an Object (C22).                                  *)
(***************************************************************************)
\* the visited Objects with an audioObjectInteraction child that get as far
\* as it
InteractionsVisited ==
  { i \in 1..Len(nodes) :
      /\ nodes[i].name = "audioObject"
      /\ nodes[i].nameAttr
      /\ FirstOfItsId(i)
      /\ findElements(nodes[i], "audioObjectInteraction") # <<>> }

GainRangesOf(i) ==
  findElements(findElements(nodes[i], "audioObjectInteraction")[1], "gainInteractionRange")

PositionRangesOf(i) ==
  findElements(findElements(nodes[i], "audioObjectInteraction")[1], "positionInteractionRange")

\* the interaction parses: it has its onOffInteract attribute, every range
\* child has the attributes read of it, and every gain read is a number
InteractionWellFormed(i) ==
  /\ findElements(nodes[i], "audioObjectInteraction")[1].onOffInteract # NoAttr
  /\ \A k \in 1..Len(GainRangesOf(i)) :
       /\ GainRangesOf(i)[k].bound # NoAttr
       /\ GainRangesOf(i)[k].bound \in BoundValues => Numeric(GainRangesOf(i)[k].value)
  /\ \A k \in 1..Len(PositionRangesOf(i)) :
       /\ PositionRangesOf(i)[k].bound # NoAttr
       /\ PositionRangesOf(i)[k].coordinate # NoAttr

\* the gain the text and unit of a gainInteractionRange child denote
GainOf(c) ==
  [unit |-> IF c.gainUnit = "dB" THEN "dB" ELSE "linear", value |-> LeadingNumber[c.value]]

\* C22: an Object's audioObjectInteraction parses exactly when it is well
\* formed, and then: there is one GainInteractionRange exactly when there
\* are gainInteractionRange children, its minimum (maximum) is set exactly
\* when a child with bound min (max) occurred, to the gain of the last such
\* child; there is one PositionInteractionRange exactly when there are
\* positionInteractionRange children, and for each of the six coordinates
\* and each of min and max, the field of that pair is set exactly when a
\* child with that pair occurred, to the text of the last such child.
C22_InteractionRanges ==
  \A i \in InteractionsVisited :
    /\ Parsed(i) <=> InteractionWellFormed(i)
    /\ Parsed(i) =>
         LET object == ElementOf(document, NodeId(nodes[i]))
             gs == GainRangesOf(i)
             ps == PositionRangesOf(i)
         IN  /\ IsSet(object.interaction)
             /\ IsSet(object.interaction[1].gainInteractionRange) <=> gs # <<>>
             /\ gs # <<>> =>
                  \A b \in BoundValues :
                    LET naming == SelectSeq(gs, LAMBDA c : c.bound = b)
                    IN  object.interaction[1].gainInteractionRange[1][b]
                          = IF naming = <<>> THEN Unset ELSE Some(GainOf(Last(naming)))
             /\ IsSet(object.interaction[1].positionInteractionRange) <=> ps # <<>>
             /\ ps # <<>> =>
                  /\ DOMAIN object.interaction[1].positionInteractionRange[1]
                       = SphericalAxes \cup CartesianAxes
                  /\ \A a \in SphericalAxes \cup CartesianAxes : \A b \in BoundValues :
                       LET naming == SelectSeq(ps, LAMBDA c : c.coordinate = a /\ c.bound = b)
                       IN  object.interaction[1].positionInteractionRange[1][a][b]
                             = IF naming = <<>> THEN Unset ELSE Some(Last(naming).text)

\* an Object parsed with the minimum of azimuth and the maximum of X of its
\* position interaction range set
C22_Witness ==
  \E i \in InteractionsVisited :
    /\ Parsed(i)
    /\ Len(PositionRangesOf(i)) = 2
    /\ PositionRangesOf(i)[1].coordinate = "azimuth" /\ PositionRangesOf(i)[1].bound = "min"
    /\ PositionRangesOf(i)[2].coordinate = "X" /\ PositionRangesOf(i)[2].bound = "max"
    /\ LET range == ElementOf(document, NodeId(nodes[i])).interaction[1].positionInteractionRange[1]
       IN  IsSet(range["azimuth"].min) /\ IsSet(range["X"].max) /\ ~IsSet(range["X"].min)

\* an Object parsed with the minimum and the maximum of its gain
\* interaction range set
C22_WitnessGain ==
  \E i \in InteractionsVisited :
    /\ Parsed(i)
    /\ Len(GainRangesOf(i)) = 2
    /\ GainRangesOf(i)[1].bound = "min" /\ GainRangesOf(i)[2].bound = "max"
    /\ LET range == ElementOf(document, NodeId(nodes[i])).interaction[1].gainInteractionRange[1]
       IN  IsSet(range.min) /\ IsSet(range.max) /\ range.min # range.max

(***************************************************************************)
(* Axis, bound and screen-edge-lock inside a position group (C23).         *)
(***************************************************************************)
\* the visited channel formats of one DirectSpeakers or Objects block with
\* position children that get as far as them
PositionGroupsVisited ==
  { i \in 1..Len(nodes) :
      /\ nodes[i].name = "audioChannelFormat"
      /\ nodes[i].td \in {"DirectSpeakers", "Objects"}
      /\ nodes[i].nameAttr
      /\ FirstOfItsId(i)
      /\ Len(nodes[i].children) = 1
      /\ nodes[i].children[1].name = "audioBlockFormat"
      /\ findElements(nodes[i].children[1], "position") # <<>> }

PositionsOf(i) == findElements(nodes[i].children[1], "position")

PositionOf(i) == ElementOf(document, NodeId(nodes[i])).blocks[1].position

\* the field of its axis a child sets by its bound marker
BoundField(c) == FieldOf(c.bound)

\* the edge a child captures when it sets the base value of azimuth or X
\* (horizontal), of elevation or Y (vertical)
BaseEdge(c) ==
  IF c.bound = NoAttr /\ c.coordinate \in {"azimuth", "X"} THEN "horizontalEdge"
  ELSE IF c.bound = NoAttr /\ c.coordinate \in {"elevation", "Y"} THEN "verticalEdge"
  ELSE "none"

\* every child sets the base value of its axis
BaseField(c) == "value"

\* the edge a child captures when it marks azimuth or elevation
SphericalEdge(c) ==
  IF c.coordinate = "azimuth" THEN "horizontalEdge"
  ELSE IF c.coordinate = "elevation" THEN "verticalEdge"
  ELSE "none"

\* in the position, the field field(c) of the axis of each child c is set,
\* to the text of the last child naming it, and no other field is; the
\* edge edge(c) of the screen edge lock is captured from the last child c
\* that carries a screenEdgeLock marker for it, and no other edge is
PositionGroupRule(position, ps, field(_), edge(_)) ==
  /\ \A a \in DOMAIN position.coord : \A f \in {"value", "min", "max"} :
       LET naming == SelectSeq(ps, LAMBDA c : c.coordinate = a /\ field(c) = f)
       IN  position.coord[a][f] = IF naming = <<>> THEN Unset ELSE Some(Last(naming).text)
  /\ \A e \in {"horizontalEdge", "verticalEdge"} :
       LET capturing == SelectSeq(ps, LAMBDA c : edge(c) = e /\ c.screenEdgeLock # NoAttr)
       IN  position.screenEdgeLock[e]
             = IF capturing = <<>> THEN Unset ELSE Some(Last(capturing).screenEdgeLock)

\* C23 as claimed: in every position group that parses, of a DirectSpeakers
\* and of an Objects block alike, each child sets of the axis its
\* coordinate marker names the base value, the minimum or the maximum
\* according to its bound marker, and the screen-edge-lock marker is
\* captured exactly from the children that set the base value of azimuth,
\* elevation, X or Y.
C23_PositionGroupsAlike ==
  \A i \in PositionGroupsVisited :
    Parsed(i) => PositionGroupRule(PositionOf(i), PositionsOf(i), BoundField, BaseEdge)

\* C23 amended: that holds of the position groups of DirectSpeakers
\* blocks; in the position group of an Objects block every child sets the
\* base value of the axis its coordinate marker names, whatever its bound
\* marker, and the screen-edge-lock marker is captured exactly from the
\* children that mark azimuth or elevation.
C23_PositionGroups ==
  \A i \in PositionGroupsVisited :
    Parsed(i) =>
      IF nodes[i].td = "DirectSpeakers"
      THEN PositionGroupRule(PositionOf(i), PositionsOf(i), BoundField, BaseEdge)
      ELSE PositionGroupRule(PositionOf(i), PositionsOf(i), BaseField, SphericalEdge)

\* a DirectSpeakers group parsed with the base value of Y, capturing its
\* screen edge lock, and the maximum of X, not capturing it
C23_Witness ==
  \E i \in PositionGroupsVisited :
    /\ Parsed(i)
    /\ nodes[i].td = "DirectSpeakers"
    /\ Len(PositionsOf(i)) = 2
    /\ PositionsOf(i)[1].coordinate = "Y" /\ PositionsOf(i)[1].bound = NoAttr
    /\ PositionsOf(i)[2].coordinate = "X" /\ PositionsOf(i)[2].bound = "max"
    /\ PositionsOf(i)[1].screenEdgeLock # NoAttr /\ PositionsOf(i)[2].screenEdgeLock # NoAttr
    /\ IsSet(PositionOf(i).screenEdgeLock.verticalEdge)
    /\ ~IsSet(PositionOf(i).screenEdgeLock.horizontalEdge)
    /\ IsSet(PositionOf(i).coord["X"].max)

\* an Objects group parsed from a child marked azimuth with bound min and a
\* screen edge lock
C23_WitnessObjects ==
  \E i \in PositionGroupsVisited :
    /\ Parsed(i)
    /\ nodes[i].td = "Objects"
    /\ Len(PositionsOf(i)) = 1
    /\ PositionsOf(i)[1].coordinate = "azimuth" /\ PositionsOf(i)[1].bound = "min"
    /\ PositionsOf(i)[1].screenEdgeLock # NoAttr
    /\ IsSet(PositionOf(i).coord["azimuth"].value)
    /\ IsSet(PositionOf(i).screenEdgeLock.horizontalEdge)

\* an Objects group parsed from a child marked X with a screen edge lock
C23_WitnessCartesian ==
  \E i \in PositionGroupsVisited :
    /\ Parsed(i)
    /\ nodes[i].td = "Objects"
    /\ Len(PositionsOf(i)) = 1
    /\ PositionsOf(i)[1].coordinate = "X" /\ PositionsOf(i)[1].bound = NoAttr
    /\ PositionsOf(i)[1].screenEdgeLock # NoAttr
    /\ ~IsSet(PositionOf(i).screenEdgeLock.horizontalEdge)

(***************************************************************************)
(* The Cartesian flag of an Objects block (C26).                           *)
(***************************************************************************)
\* the visited Objects channel formats of one block that get as far as it
ObjectsBlocksVisited ==
  { i \in 1..Len(nodes) :
      /\ nodes[i].name = "audioChannelFormat"
      /\ nodes[i].td = "Objects"
      /\ nodes[i].nameAttr
      /\ FirstOfItsId(i)
      /\ Len(nodes[i].children) = 1
      /\ nodes[i].children[1].name = "audioBlockFormat" }

\* the first position child of the block is marked X, Y or Z
FirstMarkedCartesian(i) ==
  /\ PositionsOf(i) # <<>>
  /\ PositionsOf(i)[1].coordinate \in CartesianAxes

\* C26: the Cartesian flag of a parsed Objects block is true exactly when
\* its first position child is marked X, Y or Z, whatever its cartesian
\* child says, so that a block without position child has the flag false;
\* and the position stored is cartesian when the flag is true, spherical
\* when it is false.
C26_CartesianFlag ==
  \A i \in ObjectsBlocksVisited :
    Parsed(i) =>
      LET block == ElementOf(document, NodeId(nodes[i])).blocks[1]
      IN  /\ block.cartesian = FirstMarkedCartesian(i)
          /\ block.position.shape = IF block.cartesian THEN "cartesian" ELSE "spherical"
          /\ DOMAIN block.position.coord
               = IF block.cartesian THEN CartesianAxes ELSE SphericalAxes

\* a block without position child whose cartesian child says 1, parsed to
\* a spherical position
C26_Witness ==
  \E i \in ObjectsBlocksVisited :
    /\ Parsed(i)
    /\ PositionsOf(i) = <<>>
    /\ findElements(nodes[i].children[1], "cartesian") # <<>>
    /\ findElements(nodes[i].children[1], "cartesian")[1].text = 1
    /\ ElementOf(document, NodeId(nodes[i])).blocks[1].cartesian = FALSE
    /\ ElementOf(document, NodeId(nodes[i])).blocks[1].position.shape = "spherical"

\* a block whose cartesian child says 0 and whose first position child is
\* marked Z, parsed to a cartesian position
C26_WitnessGuessed ==
  \E i \in ObjectsBlocksVisited :
    /\ Parsed(i)
    /\ FirstMarkedCartesian(i) /\ PositionsOf(i)[1].coordinate = "Z"
    /\ findElements(nodes[i].children[1], "cartesian") # <<>>
    /\ findElements(nodes[i].children[1], "cartesian")[1].text = 0
    /\ ElementOf(document, NodeId(nodes[i])).blocks[1].cartesian = TRUE

(***************************************************************************)
(* Block-format dispatch of a ChannelFormat (C27).                         *)
(***************************************************************************)
\* the visited channel formats that get as far as their blocks
ChannelFormatsVisited ==
  { i \in 1..Len(nodes) :
      /\ nodes[i].name = "audioChannelFormat"
      /\ nodes[i].nameAttr
      /\ FirstOfItsId(i)
      /\ nodes[i].typeLabel = NoAttr /\ nodes[i].typeDefinition = NoAttr
      /\ findElements(nodes[i], "frequency") = <<>> }

\* the type descriptors that have a block variant
BlockVariants == {"DirectSpeakers", "Objects", "HOA", "Binaural"}

\* the gain a block child carries
BlockGainOf(b) ==
  IF findElements(b, "gain") = <<>> THEN Unset
  ELSE Some(GainOf(findElements(b, "gain")[1]))

\* C27: a ChannelFormat whose identifier embeds DirectSpeakers, Objects,
\* HOA or Binaural and that parses holds one block per audioBlockFormat
\* child, each of the variant of that type descriptor, in document order
\* (the k-th block has the gain of the k-th child); a ChannelFormat whose
\* identifier embeds any other type descriptor parses whatever its
\* audioBlockFormat children are, and holds no block.
C27_BlockDispatch ==
  \A i \in ChannelFormatsVisited :
    LET bs == findElements(nodes[i], "audioBlockFormat")
    IN  IF nodes[i].td \in BlockVariants
        THEN Parsed(i) =>
               LET blocks == ElementOf(document, NodeId(nodes[i])).blocks
               IN  /\ Len(blocks) = Len(bs)
                   /\ \A k \in 1..Len(bs) :
                        /\ blocks[k].kind = nodes[i].td
                        /\ blocks[k].gain = BlockGainOf(bs[k])
        ELSE /\ Parsed(i)
             /\ ElementOf(document, NodeId(nodes[i])).blocks = <<>>

\* a Binaural channel format parsed with two blocks of different gains
C27_Witness ==
  \E i \in ChannelFormatsVisited :
    /\ nodes[i].td = "Binaural"
    /\ Parsed(i)
    /\ Len(ElementOf(document, NodeId(nodes[i])).blocks) = 2
    /\ ElementOf(document, NodeId(nodes[i])).blocks[1].gain
         # ElementOf(document, NodeId(nodes[i])).blocks[2].gain

\* a Matrix channel format with two audioBlockFormat children, parsed
\* without blocks
C27_WitnessMatrix ==
  \E i \in ChannelFormatsVisited :
    /\ nodes[i].td = "Matrix"
    /\ Len(findElements(nodes[i], "audioBlockFormat")) = 2
    /\ pc = "done"
    /\ ElementOf(document, NodeId(nodes[i])).blocks = <<>>

(***************************************************************************)
(* The variant of a PackFormat (C28).                                      *)
(***************************************************************************)
\* the visited pack formats that get as far as their creation
PackFormatsVisited ==
  { i \in 1..Len(nodes) :
      /\ nodes[i].name = "audioPackFormat"
      /\ nodes[i].nameAttr
      /\ FirstOfItsId(i)
      /\ nodes[i].typeLabel = NoAttr /\ nodes[i].typeDefinition = NoAttr }

\* the attribute of that name as the element holds it when it is bound
Bound(node, name) == IF node[name] = NoAttr THEN Unset ELSE Some(node[name])

\* C28: every pack format visited parses, whatever attributes it carries;
\* it is of the HOA class exactly when its identifier embeds HOA;
\* normalization, screenRef and nfcRefDist are bound exactly on a pack
\* format of the HOA class that carries them and left unset on every
\* other; importance and absoluteDistance are bound whenever carried, and
\* the ChannelFormat and PackFormat references are queued (and, once parse()
\* has returned, attached) in document order, for both classes.
C28_PackFormatVariant ==
  \A i \in PackFormatsVisited :
    /\ Parsed(i)
    /\ LET pack == ElementOf(document, NodeId(nodes[i]))
           hoa == nodes[i].td = "HOA"
       IN  /\ pack.class = "AudioPackFormatHoa" <=> hoa
           /\ \A name \in {"normalization", "screenRef", "nfcRefDist"} :
                pack[name] = IF hoa THEN Bound(nodes[i], name) ELSE Unset
           /\ \A name \in {"importance", "absoluteDistance"} :
                pack[name] = Bound(nodes[i], name)
           /\ \A r \in RolesOf("audioPackFormat") :
                /\ ~Ingested => QueuedTargets(queues, r, NodeId(nodes[i])) = RefTargets(nodes[i], r)
                /\ pc = "done" => pack.rel[r] = RefTargets(nodes[i], r)

\* a generic pack format carrying the three HOA attributes and importance,
\* parsed with importance bound and none of the three
C28_Witness ==
  \E i \in PackFormatsVisited :
    /\ nodes[i].td # "HOA"
    /\ nodes[i].normalization # NoAttr /\ nodes[i].screenRef # NoAttr
    /\ nodes[i].nfcRefDist # NoAttr /\ nodes[i].importance # NoAttr
    /\ pc = "done"
    /\ IsSet(ElementOf(document, NodeId(nodes[i])).importance)
    /\ ~IsSet(ElementOf(document, NodeId(nodes[i])).normalization)
    /\ ElementOf(document, NodeId(nodes[i])).class # "AudioPackFormatHoa"

\* a pack format of the HOA class with its three attributes, importance
\* and a reference queued
C28_WitnessHoa ==
  \E i \in PackFormatsVisited :
    /\ nodes[i].td = "HOA"
    /\ ~Ingested
    /\ ElementOf(document, NodeId(nodes[i])).class = "AudioPackFormatHoa"
    /\ IsSet(ElementOf(document, NodeId(nodes[i])).normalization)
    /\ IsSet(ElementOf(document, NodeId(nodes[i])).screenRef)
    /\ IsSet(ElementOf(document, NodeId(nodes[i])).nfcRefDist)
    /\ IsSet(ElementOf(document, NodeId(nodes[i])).importance)
    /\ \E r \in RolesOf("audioPackFormat") :
         QueuedTargets(queues, r, NodeId(nodes[i])) # <<>>

=============================================================================
